---- MODULE Spec2Model ----
(***************************************************************************)
(* Splatpipe: the COLMAP cleaning engine (colmap/filters.py,               *)
(* colmap/parsers.py, steps/colmap_clean.py).                              *)
(*                                                                         *)
(* A text table is a sequence of lines.  A line is a record                *)
(*   [c |-> starts with "#", t |-> the tokens of line.split()].            *)
(* Tokens are integers: numbers stand for themselves, a file name is a     *)
(* name code.  Coordinates are integers, so that distances are compared    *)
(* exactly through their squares.                                          *)
(***************************************************************************)
EXTENDS Integers, Sequences, FiniteSets, TLC

VARIABLES
    pc,            \* position of the operation under way
    images_in,     \* images.txt handed to the operation
    points3d_in,   \* points3D.txt handed to the operation
    ply,           \* reference cloud: [found, vertices]
    args,          \* arguments / configuration of the operation
    files_out,     \* names of the files present in the output directory
    images_out,    \* content of the image table written
    points3d_out,  \* content of the point table written
    kept_ids,      \* surviving point-ID set
    result,        \* statistics returned by the operation
    history,       \* what the earlier runs into the same output directory left
    runner,        \* the PipelineRunner's thread, cancel event, snapshot, Project
    state_json,    \* the step statuses that state.json holds
    requests       \* the calls made on the runner and the project from outside

vars == <<pc, images_in, points3d_in, ply, args, files_out, images_out,
          points3d_out, kept_ids, result, history, runner, state_json, requests>>

----------------------------------------------------------------------------
(* Bounds of the input domains *)

MaxItems == 3        \* comment lines, blank lines and images in an image table
MaxRefs == 2         \* observations on one observation line
MaxPointId == 2      \* point IDs are 1..MaxPointId
MaxCamItems == 3     \* lines and images of a table handed to camera removal
MaxPoints == 2       \* lines and points of a table handed to the spatial filter
MaxVertices == 2     \* vertices of a reference cloud
MaxRunImages == 2    \* images of a reconstruction handed to the clean step

----------------------------------------------------------------------------
(* Lines and tables *)

SENTINEL == 0 - 1

Max(a, b) == IF a >= b THEN a ELSE b

RECURSIVE SumSeq(_)
SumSeq(s) ==
    IF s = <<>> THEN 0
    ELSE IF Len(s) = 1 THEN s[1]
    ELSE SumSeq(SubSeq(s, 1, Len(s) \div 2))
            + SumSeq(SubSeq(s, Len(s) \div 2 + 1, Len(s)))

RECURSIVE Flatten(_)
Flatten(ss) == IF ss = <<>> THEN <<>> ELSE Head(ss) \o Flatten(Tail(ss))

\* all sequences over S of length at most n
SeqUpTo(S, n) == UNION {[1..k -> S] : k \in 0..n}

CommentLine == [c |-> TRUE, t |-> <<0, 0>>]      \* "# test"
BlankLine == [c |-> FALSE, t |-> <<>>]           \* "\n"

\* IMAGE_ID QW QX QY QZ TX TY TZ CAMERA_ID NAME
PoseLine(id, pos, name) ==
    [c |-> FALSE, t |-> <<id, 1, 0, 0, 0, pos[1], pos[2], pos[3], 1, name>>]

\* the k-th observation sits at pixel (100 + k, 200 + k)
ObsTokens(refs) ==
    Flatten([k \in 1..Len(refs) |-> <<100 + k, 200 + k, refs[k]>>])

\* POINTS2D[] as (X, Y, POINT3D_ID), followed by `extra` stray tokens
ObsLine(refs, extra) ==
    [c |-> FALSE, t |-> ObsTokens(refs) \o [k \in 1..extra |-> 7]]

PointIds == 1..MaxPointId
RefValues == PointIds \cup {SENTINEL}

\* observation lines: well formed ones, and ones whose token count is not
\* a multiple of three
ObsLines ==
    {ObsLine(r, 0) : r \in SeqUpTo(RefValues, MaxRefs)}
        \cup {ObsLine(r, 1) : r \in SeqUpTo(RefValues, 1)}

\* an item of an image table: a comment line, a blank line, or an image
\* (its pose line immediately followed by its observation line)
ItemLines(shape, id) ==
    CASE shape.kind = "comment" -> <<CommentLine>>
      [] shape.kind = "blank" -> <<BlankLine>>
      [] shape.kind = "image" -> <<PoseLine(id, shape.pos, shape.name), shape.obs>>

TableOf(shapes) == Flatten([i \in 1..Len(shapes) |-> ItemLines(shapes[i], i)])

----------------------------------------------------------------------------
(* colmap/parsers.py *)

\* the POINTS2D triplets of an observation line, as parse_images_txt reads them
Points2dOf(pts_line) ==
    LET p == pts_line.t IN
    IF Len(p) >= 3 /\ Len(p) % 3 = 0
    THEN [k \in 1..(Len(p) \div 3) |->
            [x |-> p[3 * k - 2], y |-> p[3 * k - 1], point3d_id |-> p[3 * k]]]
    ELSE <<>>

\* one turn of the loop over the lines: a comment, a blank or a short line
\* is passed over; a pose line is read together with the line after it
ParseImagesLine(f, s) ==
    LET i == s.i IN
    IF f[i].c \/ f[i].t = <<>> THEN [s EXCEPT !.i = i + 1]
    ELSE IF Len(f[i].t) < 10 THEN [s EXCEPT !.i = i + 1]
    ELSE LET pts_line == IF i + 1 <= Len(f) THEN f[i + 1] ELSE BlankLine IN
         [i |-> i + 2,
          out |-> Append(s.out,
           [image_id |-> f[i].t[1],
            qw |-> f[i].t[2], qx |-> f[i].t[3], qy |-> f[i].t[4], qz |-> f[i].t[5],
            tx |-> f[i].t[6], ty |-> f[i].t[7], tz |-> f[i].t[8],
            camera_id |-> f[i].t[9],
            name |-> f[i].t[10],
            pose_line |-> f[i],
            points2d_line |-> pts_line,
            points2d |-> Points2dOf(pts_line)])]

\* the loop from the state s on, for at most n turns or until the position
\* is past the last line (a turn reads at least one line, so Len(f) turns
\* suffice); the turns are taken half by half
RECURSIVE ParseImagesLines(_, _, _)
ParseImagesLines(f, s, n) ==
    IF n = 0 \/ s.i > Len(f) THEN s
    ELSE IF n = 1 THEN ParseImagesLine(f, s)
    ELSE ParseImagesLines(f, ParseImagesLines(f, s, n \div 2), n - n \div 2)

\* the images yielded from line i on
ParseImagesFrom(f, i) == ParseImagesLines(f, [i |-> i, out |-> <<>>], Len(f)).out

parse_images_txt(f) == ParseImagesFrom(f, 1)

----------------------------------------------------------------------------
(* colmap/filters.py: clean_points2d_refs *)

\* new_parts: every third token that is neither -1 nor a kept ID becomes -1
NewParts(parts, kept_point_ids) ==
    [k \in 1..Len(parts) |->
        IF k % 3 = 0 /\ parts[k] # SENTINEL /\ parts[k] \notin kept_point_ids
        THEN SENTINEL ELSE parts[k]]

KeptRefs(parts, kept_point_ids) ==
    Cardinality({k \in 1..(Len(parts) \div 3) :
        parts[3 * k] # SENTINEL /\ parts[3 * k] \in kept_point_ids})

RECURSIVE CleanFrom(_, _, _, _)
CleanFrom(f, i, kept_point_ids, acc) ==
    IF i > Len(f) THEN acc
    ELSE IF f[i].c
    THEN CleanFrom(f, i + 1, kept_point_ids, [acc EXCEPT !.out = Append(@, f[i])])
    ELSE \* camera pose line: whatever line comes here is taken as one
         LET a1 == [acc EXCEPT !.out = Append(@, f[i]), !.cameras = @ + 1] IN
         IF i + 1 > Len(f)
         THEN [a1 EXCEPT !.out = Append(@, BlankLine)]
         ELSE LET parts == f[i + 1].t IN
              IF parts = <<>>
              THEN CleanFrom(f, i + 2, kept_point_ids,
                             [a1 EXCEPT !.out = Append(@, BlankLine)])
              ELSE IF Len(parts) % 3 # 0
              THEN CleanFrom(f, i + 2, kept_point_ids,
                             [a1 EXCEPT !.out = Append(@, f[i + 1])])
              ELSE LET n_triplets == Len(parts) \div 3
                       kept == KeptRefs(parts, kept_point_ids) IN
                   CleanFrom(f, i + 2, kept_point_ids,
                       [a1 EXCEPT
                           !.out = Append(@, [c |-> FALSE,
                                              t |-> NewParts(parts, kept_point_ids)]),
                           !.total_refs = @ + n_triplets,
                           !.kept_refs = @ + kept,
                           !.cleaned_refs = @ + (n_triplets - kept)])

clean_points2d_refs(f, kept_point_ids) ==
    CleanFrom(f, 1, kept_point_ids,
              [out |-> <<>>, cameras |-> 0, total_refs |-> 0,
               kept_refs |-> 0, cleaned_refs |-> 0])

----------------------------------------------------------------------------
(* colmap/filters.py: analyze_cameras                                       *)
(*                                                                          *)
(* Positions are integers.  The median of an even number of values is a     *)
(* half-integer, so the centre is kept doubled (2 * median), a distance d   *)
(* as Dist2 = (2d)^2 and a threshold t as 16 * t^2: then                    *)
(*     d > t   iff   4 * Dist2 > 16 * t^2       (t >= 0).                   *)

MinThreshold == 100     \* max(100.0, ...)
MultNum == 5            \* p99 * 2.5 = p99 * MultNum / MultDen
MultDen == 2
PercentileNum == 99     \* int(len(sorted_d) * 0.99)
PercentileDen == 100

\* one turn of the loop: a pose line gives a camera and the line after it
\* is skipped
ScanCamerasLine(f, s) ==
    LET i == s.i IN
    IF f[i].c THEN [s EXCEPT !.i = i + 1]
    ELSE IF Len(f[i].t) >= 10
    THEN [i |-> i + 2,
          out |-> Append(s.out, [name |-> f[i].t[10], tx |-> f[i].t[6],
                                 ty |-> f[i].t[7], tz |-> f[i].t[8]])]
    ELSE [s EXCEPT !.i = i + 1]

\* at most n turns of the loop from the state s on, half by half
RECURSIVE ScanCamerasLines(_, _, _)
ScanCamerasLines(f, s, n) ==
    IF n = 0 \/ s.i > Len(f) THEN s
    ELSE IF n = 1 THEN ScanCamerasLine(f, s)
    ELSE ScanCamerasLines(f, ScanCamerasLines(f, s, n \div 2), n - n \div 2)

\* the cameras read from line i on
ScanCameras(f, i) == ScanCamerasLines(f, [i |-> i, out |-> <<>>], Len(f)).out

SortAsc(xs) == SortSeq(xs, LAMBDA a, b : a < b)

\* 2 * statistics.median(xs), xs not empty
Mean2(xs) == (2 * SumSeq(xs)) \div Len(xs)
\* statistics.median, doubled: the middle value, or the sum of the two middle
\* values
Median2(xs) ==
    LET s == SortAsc(xs)
        n == Len(s) IN
    IF n % 2 = 1 THEN 2 * s[(n + 1) \div 2] ELSE s[n \div 2] + s[n \div 2 + 1]

Sq(a) == a * a

Dist2FromOrigin(cam, med) == Sq(2 * cam.tx) + Sq(2 * cam.ty) + Sq(2 * cam.tz)

\* (2d)^2 for the distance d of a camera to the centre med (doubled)
Dist2(cam, med) ==
    Sq(2 * cam.tx - med.tx) + Sq(2 * cam.ty - med.ty) + Sq(2 * cam.tz - med.tz)

\* 16 * max(floor, d_p * mnum / mden)^2, where pd2 = (2 d_p)^2
ThresholdSq16(floor, mnum, mden, pd2) ==
    Max(16 * floor * floor, ((4 * mnum * mnum) * pd2) \div (mden * mden))

IsOutlierGE(d2, thr16) == 4 * d2 >= thr16
IsOutlierLT(d2, thr16) == 4 * d2 < thr16
\* d > threshold
IsOutlier(d2, thr16) == 4 * d2 > thr16

PercentileIndexMiddle(n, num, den) == n \div 2
\* index of the percentile distance: int(n * num / den)
PercentileIndex(n, num, den) == (n * num) \div den

analyze_cameras(f) ==
    LET cameras == ScanCameras(f, 1)
        n == Len(cameras)
        med == [tx |-> Median2([k \in 1..n |-> cameras[k].tx]),
                ty |-> Median2([k \in 1..n |-> cameras[k].ty]),
                tz |-> Median2([k \in 1..n |-> cameras[k].tz])]
        sorted_d == SortAsc([k \in 1..n |-> Dist2(cameras[k], med)])
        p99 == sorted_d[PercentileIndex(n, PercentileNum, PercentileDen) + 1]
        threshold == ThresholdSq16(MinThreshold, MultNum, MultDen, p99) IN
    [cameras |-> cameras,
     median |-> med,
     threshold |-> threshold,
     outliers |-> {k \in 1..n : IsOutlier(Dist2(cameras[k], med), threshold)},
     total |-> n]

----------------------------------------------------------------------------
(* colmap/filters.py: remove_outlier_cameras, remove_outlier_cameras_auto *)

KeepImagePoseOnly(acc, line, pts2d_line) ==
    [acc EXCEPT !.out = @ \o <<line>>, !.kept = @ + 1]
\* fout.write(line); fout.write(pts2d_line); kept += 1
KeepImage(acc, line, pts2d_line) ==
    [acc EXCEPT !.out = @ \o <<line, pts2d_line>>, !.kept = @ + 1]

\* one turn of the loop: a comment is written, a pose line is read with the
\* line after it and the two are written unless the name is an outlier's
RemoveLine(f, s, outlier_names) ==
    LET i == s.i
        acc == s.acc IN
    IF f[i].c
    THEN [i |-> i + 1, acc |-> [acc EXCEPT !.out = Append(@, f[i])]]
    ELSE IF Len(f[i].t) >= 10
    THEN LET pts2d_line == IF i + 1 <= Len(f) THEN f[i + 1] ELSE BlankLine IN
         IF f[i].t[10] \in outlier_names
         THEN [i |-> i + 2, acc |-> [acc EXCEPT !.removed = @ + 1]]
         ELSE [i |-> i + 2, acc |-> KeepImage(acc, f[i], pts2d_line)]
    ELSE [s EXCEPT !.i = i + 1]

\* at most n turns of the loop from the state s on, half by half
RECURSIVE RemoveLines(_, _, _, _)
RemoveLines(f, s, outlier_names, n) ==
    IF n = 0 \/ s.i > Len(f) THEN s
    ELSE IF n = 1 THEN RemoveLine(f, s, outlier_names)
    ELSE RemoveLines(f, RemoveLines(f, s, outlier_names, n \div 2), outlier_names,
                     n - n \div 2)

RemoveFrom(f, i, outlier_names, acc) ==
    RemoveLines(f, [i |-> i, acc |-> acc], outlier_names, Len(f)).acc

remove_outlier_cameras(f, outlier_names) ==
    RemoveFrom(f, 1, outlier_names, [out |-> <<>>, kept |-> 0, removed |-> 0])

\* the names of the cameras farther than the threshold from the centre
OutlierNames(analysis, thr16) ==
    {analysis.cameras[k].name : k \in
        {j \in 1..analysis.total :
            IsOutlier(Dist2(analysis.cameras[j], analysis.median), thr16)}}

\* threshold is NoThreshold (None) or a distance; percentile, multiplier and
\* min_threshold are accepted and not read
NoThreshold == 0 - 1

remove_outlier_cameras_auto(f, threshold, percentile, multiplier, min_threshold) ==
    LET analysis == analyze_cameras(f)
        used == IF threshold = NoThreshold THEN analysis.threshold
                ELSE 16 * threshold * threshold
        outlier_names == OutlierNames(analysis, used)
        r == remove_outlier_cameras(f, outlier_names) IN
    [analysis |-> analysis, threshold_used |-> used,
     outlier_names |-> outlier_names,
     out |-> r.out, kept |-> r.kept, removed |-> r.removed]

----------------------------------------------------------------------------
(* colmap/parsers.py: parse_points3d_txt; colmap/filters.py:               *)
(* load_kept_point_ids                                                      *)

\* POINT3D_ID X Y Z R G B ERROR TRACK[] as (IMAGE_ID, POINT2D_IDX)
PointLine(pid, pos, track) ==
    [c |-> FALSE, t |-> <<pid, pos[1], pos[2], pos[3], 0, 0, 0, 0>> \o track]

\* the (image_id, point2d_idx) pairs of a point line; a last token without
\* its pair is left out
TrackOf(parts) ==
    [k \in 1..((Len(parts) - 8) \div 2) |->
        [image_id |-> parts[7 + 2 * k], point2d_idx |-> parts[8 + 2 * k]]]

RECURSIVE ParsePointsFrom(_, _)
ParsePointsFrom(f, i) ==
    IF i > Len(f) THEN <<>>
    ELSE IF f[i].c \/ f[i].t = <<>> THEN ParsePointsFrom(f, i + 1)
    ELSE IF Len(f[i].t) < 8 THEN ParsePointsFrom(f, i + 1)
    ELSE <<[point3d_id |-> f[i].t[1],
            x |-> f[i].t[2], y |-> f[i].t[3], z |-> f[i].t[4],
            r |-> f[i].t[5], g |-> f[i].t[6], b |-> f[i].t[7],
            error |-> f[i].t[8],
            track |-> TrackOf(f[i].t),
            line |-> f[i]]>>
         \o ParsePointsFrom(f, i + 1)

parse_points3d_txt(f) == ParsePointsFrom(f, 1)

load_kept_point_ids_skip_first(f) ==
    {f[i].t[1] : i \in {j \in 2..Len(f) : ~f[j].c /\ f[j].t # <<>>}}
\* the first token of every line that is neither a comment nor blank
load_kept_point_ids(f) ==
    {f[i].t[1] : i \in {j \in 1..Len(f) : ~f[j].c /\ f[j].t # <<>>}}

----------------------------------------------------------------------------
(* colmap/ply_io.py: ply_vertices_to_colmap_coords; colmap/filters.py:      *)
(* filter_points3d_kdtree                                                   *)

DefaultTransform == <<1, 0, 0, 0, 0, 0 - 1, 0, 1, 0>>
IdentityTransform == <<1, 0, 0, 0, 1, 0, 0, 0, 1>>

\* one row of ply_coords @ mat.T, mat the row-major 3x3 transform
Transformed(v, m) ==
    <<m[1] * v[1] + m[2] * v[2] + m[3] * v[3],
      m[4] * v[1] + m[5] * v[2] + m[6] * v[3],
      m[7] * v[1] + m[8] * v[2] + m[9] * v[3]>>

ply_vertices_to_colmap_coords(vertices, transform) ==
    [k \in 1..Len(vertices) |-> Transformed(vertices[k], transform)]

DistSq(a, b) == Sq(a[1] - b[1]) + Sq(a[2] - b[2]) + Sq(a[3] - b[3])

\* the square of the distance from x to the nearest of coords (not empty)
NearestSq(coords, x) ==
    CHOOSE d \in {DistSq(coords[k], x) : k \in 1..Len(coords)} :
        \A k \in 1..Len(coords) : d <= DistSq(coords[k], x)

\* tree.query(x, distance_upper_bound = bound): cKDTree reports the nearest
\* neighbour only when it is strictly closer than the bound (d < bound), and
\* an infinite distance otherwise
TreeQuery(coords, x, bound) ==
    IF NearestSq(coords, x) < bound * bound
    THEN [inf |-> FALSE, dsq |-> NearestSq(coords, x)]
    ELSE [inf |-> TRUE, dsq |-> 0]

\* dist <= threshold
WithinThreshold(q, threshold) == ~q.inf /\ q.dsq <= threshold * threshold

RECURSIVE FilterFrom(_, _, _, _, _)
FilterFrom(f, i, coords, threshold, acc) ==
    IF i > Len(f) THEN acc
    ELSE IF f[i].c
    THEN FilterFrom(f, i + 1, coords, threshold, [acc EXCEPT !.out = Append(@, f[i])])
    ELSE IF Len(f[i].t) < 4
    THEN FilterFrom(f, i + 1, coords, threshold, acc)
    ELSE LET pid == f[i].t[1]
             x == <<f[i].t[2], f[i].t[3], f[i].t[4]>>
             a1 == [acc EXCEPT !.total = @ + 1] IN
         IF WithinThreshold(TreeQuery(coords, x, threshold), threshold)
         THEN FilterFrom(f, i + 1, coords, threshold,
                         [a1 EXCEPT !.out = Append(@, f[i]),
                                    !.kept = @ + 1,
                                    !.kept_ids = @ \cup {pid}])
         ELSE FilterFrom(f, i + 1, coords, threshold, a1)

\* vertices not empty
filter_points3d_kdtree(f, vertices, threshold, transform) ==
    LET colmap_coords == ply_vertices_to_colmap_coords(vertices, transform)
        r == FilterFrom(f, 1, colmap_coords, threshold,
                        [out |-> <<>>, total |-> 0, kept |-> 0, kept_ids |-> {}]) IN
    [out |-> r.out,
     ply_vertices |-> Len(colmap_coords),
     threshold |-> threshold,
     points_before |-> r.total,
     points_after |-> r.kept,
     points_removed |-> r.total - r.kept,
     kept_ids |-> r.kept_ids]

----------------------------------------------------------------------------
(* colmap/parsers.py: detect_colmap_format *)

TxtFiles == {"cameras.txt", "images.txt", "points3D.txt"}
BinFiles == {"cameras.bin", "images.bin", "points3D.bin"}

detect_colmap_format_any(files) ==
    IF TxtFiles \cap files # {} THEN "text"
    ELSE IF BinFiles \cap files # {} THEN "binary"
    ELSE "unknown"
\* all(...exists() for f in txt_files), then all(... for f in bin_files)
detect_colmap_format(files) ==
    IF TxtFiles \subseteq files THEN "text"
    ELSE IF BinFiles \subseteq files THEN "binary"
    ELSE "unknown"

----------------------------------------------------------------------------
(* Reference repair on its own: clean_points2d_refs applied to an image     *)
(* table and a surviving set                                                *)

NoPly == [found |-> FALSE, vertices |-> <<>>]
NoResult == [op |-> "none"]
\* no PipelineRunner was constructed; the project directory holds no state.json
NoRunner == [pc |-> "none"]
NoFile == [exists |-> FALSE]

RepairShapes ==
    {[kind |-> "comment"], [kind |-> "blank"]}
        \cup {[kind |-> "image", pos |-> <<0, 0, 0>>, name |-> 1, obs |-> o] :
                o \in ObsLines}

RepairTables == {TableOf(s) : s \in SeqUpTo(RepairShapes, MaxItems)}

InitRepair ==
    /\ pc = "repair"
    /\ images_in \in RepairTables
    /\ kept_ids \in SUBSET PointIds
    /\ points3d_in = <<>>
    /\ ply = NoPly
    /\ args = [op |-> "clean_points2d_refs"]
    /\ files_out = {}
    /\ images_out = <<>>
    /\ points3d_out = <<>>
    /\ result = NoResult
    /\ history = <<>>
    /\ runner = NoRunner
    /\ state_json = NoFile
    /\ requests = <<>>

CleanPoints2dRefs ==
    /\ pc = "repair"
    /\ LET r == clean_points2d_refs(images_in, kept_ids) IN
        /\ images_out' = r.out
        /\ result' = [op |-> "clean_points2d_refs",
                      cameras |-> r.cameras, total_refs |-> r.total_refs,
                      kept_refs |-> r.kept_refs, cleaned_refs |-> r.cleaned_refs]
    /\ files_out' = {"images.txt"}
    /\ pc' = "repaired"
    /\ UNCHANGED <<runner, state_json, requests, history, images_in, points3d_in, ply, args, points3d_out, kept_ids>>

NextRepair == CleanPoints2dRefs

SpecRepair == InitRepair /\ [][NextRepair]_vars

----------------------------------------------------------------------------
(* Camera removal on its own: remove_outlier_cameras with a set of names,   *)
(* and remove_outlier_cameras_auto with its keyword arguments               *)

Names == {1, 2}
CamPositions == {<<0, 0, 0>>, <<3, 4, 0>>, <<300, 0, 0>>}

\* tables for remove_outlier_cameras: the names and the observation lines
\* vary, the positions are not read
NameShapes ==
    {[kind |-> "comment"], [kind |-> "blank"]}
        \cup {[kind |-> "image", pos |-> <<0, 0, 0>>, name |-> n, obs |-> ObsLine(r, 0)] :
                n \in Names, r \in {<<>>, <<1>>}}

\* tables for remove_outlier_cameras_auto: the positions and the names vary
PositionShapes ==
    {[kind |-> "comment"], [kind |-> "blank"]}
        \cup {[kind |-> "image", pos |-> p, name |-> n, obs |-> ObsLine(<<1>>, 0)] :
                p \in CamPositions, n \in Names}

NameTables == {TableOf(s) : s \in SeqUpTo(NameShapes, MaxCamItems)}
PositionTables == {TableOf(s) : s \in SeqUpTo(PositionShapes, MaxCamItems)}

Ratio(num, den) == [num |-> num, den |-> den]

DefaultAuto ==
    [op |-> "remove_outlier_cameras_auto", threshold |-> NoThreshold,
     percentile |-> Ratio(PercentileNum, PercentileDen),
     multiplier |-> Ratio(MultNum, MultDen),
     min_threshold |-> MinThreshold]

DirectCalls ==
    {[op |-> "remove_outlier_cameras", outlier_names |-> S] : S \in SUBSET Names}

AutoCalls ==
    {DefaultAuto,
     [DefaultAuto EXCEPT !.threshold = 5],
     [DefaultAuto EXCEPT !.percentile = Ratio(1, 2)],
     [DefaultAuto EXCEPT !.multiplier = Ratio(1, 1)],
     [DefaultAuto EXCEPT !.min_threshold = 2]}

\* tables of more cameras than the percentile's denominator, from where on
\* int(N * 0.99) is below N - 1: a crowd at one position and one or two
\* cameras far from it, every image named by its number
CrowdTables ==
    {[j \in 1..(2 * (PercentileDen + k)) |->
        LET i == (j + 1) \div 2 IN
        IF j % 2 = 1
        THEN PoseLine(i, IF i <= PercentileDen THEN <<0, 0, 0>> ELSE <<300, 0, 0>>, i)
        ELSE ObsLine(<<1>>, 0)] : k \in 1..2}

InitCam ==
    /\ pc = "call"
    /\ \/ args \in DirectCalls /\ images_in \in NameTables
       \/ args \in AutoCalls /\ images_in \in PositionTables
       \/ args = DefaultAuto /\ images_in \in CrowdTables
    /\ kept_ids = {}
    /\ points3d_in = <<>>
    /\ ply = NoPly
    /\ files_out = {}
    /\ images_out = <<>>
    /\ points3d_out = <<>>
    /\ result = NoResult
    /\ history = <<>>
    /\ runner = NoRunner
    /\ state_json = NoFile
    /\ requests = <<>>

RemoveOutlierCameras ==
    /\ pc = "call"
    /\ args.op = "remove_outlier_cameras"
    /\ LET r == remove_outlier_cameras(images_in, args.outlier_names) IN
        /\ images_out' = r.out
        /\ result' = [op |-> args.op, kept |-> r.kept, removed |-> r.removed,
                      outlier_names |-> args.outlier_names]
    /\ files_out' = {"images.txt"}
    /\ pc' = "removed"
    /\ UNCHANGED <<runner, state_json, requests, history, images_in, points3d_in, ply, args, points3d_out, kept_ids>>

RemoveOutlierCamerasAuto ==
    /\ pc = "call"
    /\ args.op = "remove_outlier_cameras_auto"
    /\ ScanCameras(images_in, 1) # <<>>
    /\ LET r == remove_outlier_cameras_auto(images_in, args.threshold,
                    args.percentile, args.multiplier, args.min_threshold) IN
        /\ images_out' = r.out
        /\ result' = [op |-> args.op, kept |-> r.kept, removed |-> r.removed,
                      outlier_names |-> r.outlier_names,
                      analysis |-> r.analysis,
                      threshold_used |-> r.threshold_used]
    /\ files_out' = {"images.txt"}
    /\ pc' = "removed"
    /\ UNCHANGED <<runner, state_json, requests, history, images_in, points3d_in, ply, args, points3d_out, kept_ids>>

\* statistics.median raises StatisticsError on a table without cameras
RemoveOutlierCamerasAutoRaises ==
    /\ pc = "call"
    /\ args.op = "remove_outlier_cameras_auto"
    /\ ScanCameras(images_in, 1) = <<>>
    /\ pc' = "raised"
    /\ result' = [op |-> args.op, error |-> "StatisticsError"]
    /\ UNCHANGED <<runner, state_json, requests, history, images_in, points3d_in, ply, args, files_out, images_out,
                   points3d_out, kept_ids>>

NextCam ==
    \/ RemoveOutlierCameras
    \/ RemoveOutlierCamerasAuto
    \/ RemoveOutlierCamerasAutoRaises

SpecCam == InitCam /\ [][NextCam]_vars

----------------------------------------------------------------------------
(* The spatial filter on its own: filter_points3d_kdtree applied to a point *)
(* table, a reference cloud, a threshold and a transform                    *)

PointPositions == {<<0, 0, 0>>, <<3, 4, 0>>, <<3, 4, 1>>}
VertexPositions == {<<0, 0, 0>>, <<6, 0, 0 - 8>>}
KdThresholds == {1, 5}

PointShapes ==
    {[kind |-> "comment"], [kind |-> "blank"]}
        \cup {[kind |-> "point", pos |-> p] : p \in PointPositions}

PointItemLines(shape, id) ==
    CASE shape.kind = "comment" -> <<CommentLine>>
      [] shape.kind = "blank" -> <<BlankLine>>
      [] shape.kind = "point" -> <<PointLine(id, shape.pos, <<1, 0>>)>>

PointTableOf(shapes) ==
    Flatten([i \in 1..Len(shapes) |-> PointItemLines(shapes[i], i)])

KdPointTables == {PointTableOf(s) : s \in SeqUpTo(PointShapes, MaxPoints)}

InitKd ==
    /\ pc = "call"
    /\ points3d_in \in KdPointTables
    /\ ply \in {[found |-> TRUE, vertices |-> v] :
                    v \in SeqUpTo(VertexPositions, MaxVertices)}
    /\ args \in {[op |-> "filter_points3d_kdtree", threshold |-> t, transform |-> m] :
                    t \in KdThresholds, m \in {DefaultTransform, IdentityTransform}}
    /\ images_in = <<>>
    /\ kept_ids = {}
    /\ files_out = {}
    /\ images_out = <<>>
    /\ points3d_out = <<>>
    /\ result = NoResult
    /\ history = <<>>
    /\ runner = NoRunner
    /\ state_json = NoFile
    /\ requests = <<>>

FilterPoints3dKdtree ==
    /\ pc = "call"
    /\ args.op = "filter_points3d_kdtree"
    /\ ply.vertices # <<>>
    /\ LET r == filter_points3d_kdtree(points3d_in, ply.vertices,
                                       args.threshold, args.transform) IN
        /\ points3d_out' = r.out
        /\ kept_ids' = r.kept_ids
        /\ result' = [op |-> args.op,
                      ply_vertices |-> r.ply_vertices,
                      threshold |-> r.threshold,
                      points_before |-> r.points_before,
                      points_after |-> r.points_after,
                      points_removed |-> r.points_removed]
    /\ files_out' = {"points3D.txt"}
    /\ pc' = "filtered"
    /\ UNCHANGED <<runner, state_json, requests, history, images_in, points3d_in, ply, args, images_out>>

\* colmap_coords[:, i].min() raises ValueError on a cloud without vertices,
\* before points3d_out is opened
FilterPoints3dKdtreeRaises ==
    /\ pc = "call"
    /\ args.op = "filter_points3d_kdtree"
    /\ ply.vertices = <<>>
    /\ pc' = "raised"
    /\ result' = [op |-> args.op, error |-> "ValueError"]
    /\ UNCHANGED <<runner, state_json, requests, history, images_in, points3d_in, ply, args, files_out, images_out,
                   points3d_out, kept_ids>>

NextKd == FilterPoints3dKdtree \/ FilterPoints3dKdtreeRaises

SpecKd == InitKd /\ [][NextKd]_vars

----------------------------------------------------------------------------
(* steps/colmap_clean.py: ColmapCleanStep.run, stage by stage               *)
(*                                                                          *)
(* The source directory holds a reconstruction: images whose observations   *)
(* refer to points, and points whose tracks list exactly the observations   *)
(* that refer to them.  A binary source is converted to text tables first.  *)

RunPositions == {<<0, 0, 0>>, <<300, 0, 0>>}
RunPointIds == {1, 2}
FixedThresholds == {5, 150}   \* outlier_threshold_fixed of the explicit runs
KdTreeThreshold == 1     \* kdtree_threshold of the runs

RunObs == {ObsLine(<<>>, 0)} \cup {ObsLine(<<p>>, 0) : p \in RunPointIds}

RunImageShapes == {[pos |-> p, obs |-> o] : p \in RunPositions, o \in RunObs}

\* image i is named i
RunImages(shapes) ==
    Flatten([i \in 1..Len(shapes) |-> <<PoseLine(i, shapes[i].pos, i), shapes[i].obs>>])

\* the track of point pid: the observations of the image table referring to it
TrackTokens(images, pid) ==
    LET imgs == parse_images_txt(images) IN
    Flatten([j \in 1..Len(imgs) |->
        Flatten([k \in 1..Len(imgs[j].points2d) |->
            IF imgs[j].points2d[k].point3d_id = pid
            THEN <<imgs[j].image_id, k - 1>> ELSE <<>>])])

\* where[pid] is "absent", or "near" or "far" from the reference cloud
RunPointLayouts == [RunPointIds -> {"absent", "near", "far"}]

RunPointPosition(w) == IF w = "near" THEN <<0, 0, 0>> ELSE <<9, 0, 0>>

RunPoints(images, where) ==
    Flatten([pid \in 1..Cardinality(RunPointIds) |->
        IF where[pid] = "absent" THEN <<>>
        ELSE <<PointLine(pid, RunPointPosition(where[pid]), TrackTokens(images, pid))>>])

\* the table files of the source directory with the lines ahead of the first
\* record: a text source starts with its first record or with a blank line;
\* a binary source is converted by write_images_txt / write_points3d_txt,
\* which put three and two comment lines ahead
RunSources ==
    {[files |-> TxtFiles, images_head |-> <<>>, points_head |-> <<>>],
     [files |-> TxtFiles, images_head |-> <<BlankLine>>, points_head |-> <<>>],
     [files |-> BinFiles,
      images_head |-> <<CommentLine, CommentLine, CommentLine>>,
      points_head |-> <<CommentLine, CommentLine>>]}

\* a directory holding a mix of the two conventions
MixedFiles == {"cameras.txt", "images.bin", "points3D.txt"}

RunClouds ==
    {NoPly, [found |-> TRUE, vertices |-> <<>>],
     [found |-> TRUE, vertices |-> <<<<0, 0, 0>>>>]}

\* outlier_threshold_fixed defaults to 100.0 and is not read in auto mode
DefaultConfig ==
    [outlier_threshold_auto |-> TRUE, outlier_threshold_fixed |-> MinThreshold,
     kdtree_threshold |-> KdTreeThreshold, coordinate_transform |-> DefaultTransform]

RunConfigs ==
    {DefaultConfig}
        \cup {[DefaultConfig EXCEPT !.outlier_threshold_auto = FALSE,
                                    !.outlier_threshold_fixed = t] : t \in FixedThresholds}

RunCall(files, config) == [op |-> "clean", files |-> files, clean_config |-> config]

InitRun ==
    /\ pc = "detect"
    /\ \/ \E src \in RunSources, shapes \in SeqUpTo(RunImageShapes, MaxRunImages),
             where \in RunPointLayouts, cloud \in RunClouds, config \in RunConfigs :
            \* the distance of a point to the cloud is read only by the filter
            /\ cloud.vertices = <<>> => \A pid \in RunPointIds : where[pid] # "far"
            /\ images_in = src.images_head \o RunImages(shapes)
            /\ points3d_in = src.points_head \o RunPoints(RunImages(shapes), where)
            /\ ply = cloud
            /\ args = RunCall(src.files, config)
       \/ /\ images_in = <<>>
          /\ points3d_in = <<>>
          /\ ply = NoPly
          /\ args \in {RunCall(MixedFiles, config) : config \in RunConfigs}
    /\ kept_ids = {}
    /\ files_out = {}
    /\ images_out = <<>>
    /\ points3d_out = <<>>
    /\ result = NoResult
    /\ history = <<>>
    /\ runner = NoRunner
    /\ state_json = NoFile
    /\ requests = <<>>

Failed(error) == [op |-> "clean", error |-> error]

\* lines 31-61: detect the format; a binary source is converted into
\* output_dir/_converted
DetectFormat ==
    /\ pc = "detect"
    /\ LET fmt == detect_colmap_format(args.files) IN
        /\ fmt # "unknown"
        /\ files_out' = IF fmt = "binary" THEN files_out \cup {"_converted"} ELSE files_out
        /\ result' = [op |-> "clean", fmt |-> fmt]
    /\ pc' = "cameras"
    /\ UNCHANGED <<runner, state_json, requests, history, images_in, points3d_in, ply, args, images_out, points3d_out, kept_ids>>

DetectFormatRaises ==
    /\ pc = "detect"
    /\ detect_colmap_format(args.files) = "unknown"
    /\ pc' = "failed"
    /\ result' = Failed("FileNotFoundError")
    /\ UNCHANGED <<runner, state_json, requests, history, images_in, points3d_in, ply, args, files_out, images_out,
                   points3d_out, kept_ids>>

\* line 64: copy cameras.txt
CopyCameras ==
    /\ pc = "cameras"
    /\ files_out' = files_out \cup {"cameras.txt"}
    /\ pc' = "outliers"
    /\ UNCHANGED <<runner, state_json, requests, history, images_in, points3d_in, ply, args, images_out, points3d_out,
                   kept_ids, result>>

\* the cameras farther than the threshold from the centre, in table order
OutlierList(analysis, thr16) ==
    SelectSeq(analysis.cameras,
              LAMBDA cam : IsOutlier(Dist2(cam, analysis.median), thr16))

\* lines 67-101: analyse the cameras, choose the threshold, remove the
\* outliers by name (or copy the table when there is none)
RemoveOutliers ==
    /\ pc = "outliers"
    /\ ScanCameras(images_in, 1) # <<>>
    /\ LET analysis == analyze_cameras(images_in)
           use_auto == args.clean_config.outlier_threshold_auto
           threshold == IF use_auto THEN analysis.threshold
                        ELSE 16 * Sq(args.clean_config.outlier_threshold_fixed)
           outlier_list == OutlierList(analysis, threshold)
           outlier_names == {outlier_list[k].name : k \in 1..Len(outlier_list)}
           removal == remove_outlier_cameras(images_in, outlier_names)
           cam_result == IF outlier_names # {}
                         THEN [kept |-> removal.kept, removed |-> removal.removed]
                         ELSE [kept |-> analysis.total, removed |-> 0] IN
        /\ images_out' = IF outlier_names # {} THEN removal.out ELSE images_in
        /\ result' = result @@
              [camera_analysis |->
                  [total |-> analysis.total,
                   cameras |-> analysis.cameras,
                   median_position |-> analysis.median,
                   threshold_used |-> threshold,
                   threshold_mode |-> IF use_auto THEN "auto" ELSE "fixed",
                   outliers_found |-> Len(outlier_list),
                   outliers |-> outlier_list],
               outlier_names |-> outlier_names,
               camera_removal |-> cam_result]
    /\ files_out' = files_out \cup {"images.txt"}
    /\ pc' = "points"
    /\ UNCHANGED <<runner, state_json, requests, history, images_in, points3d_in, ply, args, points3d_out, kept_ids>>

\* statistics.median raises StatisticsError on a table without cameras
RemoveOutliersRaises ==
    /\ pc = "outliers"
    /\ ScanCameras(images_in, 1) = <<>>
    /\ pc' = "failed"
    /\ result' = Failed("StatisticsError")
    /\ UNCHANGED <<runner, state_json, requests, history, images_in, points3d_in, ply, args, files_out, images_out,
                   points3d_out, kept_ids>>

\* lines 104-115: a PLY was found, filter the points against it
FilterPoints ==
    /\ pc = "points"
    /\ ply.found
    /\ ply.vertices # <<>>
    /\ LET r == filter_points3d_kdtree(points3d_in, ply.vertices,
                    args.clean_config.kdtree_threshold,
                    args.clean_config.coordinate_transform) IN
        /\ points3d_out' = r.out
        /\ kept_ids' = r.kept_ids
        /\ result' = result @@
              [kdtree_filter |->
                  [skipped |-> FALSE,
                   points_before |-> r.points_before,
                   points_after |-> r.points_after,
                   points_removed |-> r.points_removed]]
    /\ files_out' = files_out \cup {"points3D.txt"}
    /\ pc' = "refs"
    /\ UNCHANGED <<runner, state_json, requests, history, images_in, points3d_in, ply, args, images_out>>

\* filter_points3d_kdtree raises on a cloud without vertices
FilterPointsRaises ==
    /\ pc = "points"
    /\ ply.found
    /\ ply.vertices = <<>>
    /\ pc' = "failed"
    /\ result' = Failed("ValueError")
    /\ UNCHANGED <<runner, state_json, requests, history, images_in, points3d_in, ply, args, files_out, images_out,
                   points3d_out, kept_ids>>

\* lines 116-120: no PLY, copy points3D.txt and load its IDs
CopyPoints ==
    /\ pc = "points"
    /\ ~ply.found
    /\ points3d_out' = points3d_in
    /\ kept_ids' = load_kept_point_ids(points3d_in)
    /\ result' = result @@ [kdtree_filter |-> [skipped |-> TRUE]]
    /\ files_out' = files_out \cup {"points3D.txt"}
    /\ pc' = "refs"
    /\ UNCHANGED <<runner, state_json, requests, history, images_in, points3d_in, ply, args, images_out>>

\* time.time() - t0 as the statistics report it: the clock is not an input
Durations == {0, 1}

\* lines 123-157: rename images.txt to images_precleaned.txt, repair the
\* references into images.txt, delete the temporary file, write the summary,
\* remove _converted
RepairReferences ==
    /\ pc = "refs"
    /\ \E duration \in Durations :
       LET r == clean_points2d_refs(images_out, kept_ids) IN
        /\ images_out' = r.out
        /\ result' = result @@
              [points2d_clean |->
                  [cameras |-> r.cameras, total_refs |-> r.total_refs,
                   kept_refs |-> r.kept_refs, cleaned_refs |-> r.cleaned_refs,
                   duration_s |-> duration],
               summary |->
                  [cameras_total |-> result.camera_analysis.total,
                   cameras_removed |-> Cardinality(result.outlier_names),
                   cameras_kept |-> result.camera_removal.kept,
                   points2d_total |-> r.total_refs,
                   points2d_kept |-> r.kept_refs,
                   points2d_cleaned |-> r.cleaned_refs]]
    /\ files_out' = files_out \ {"_converted"}
    /\ pc' = "done"
    /\ UNCHANGED <<runner, state_json, requests, history, images_in, points3d_in, ply, args, points3d_out, kept_ids>>

Next ==
    \/ DetectFormat
    \/ DetectFormatRaises
    \/ CopyCameras
    \/ RemoveOutliers
    \/ RemoveOutliersRaises
    \/ FilterPoints
    \/ FilterPointsRaises
    \/ CopyPoints
    \/ RepairReferences

Spec == InitRun /\ [][Next]_vars

----------------------------------------------------------------------------
(* The clean step run a second time on the same inputs and configuration,   *)
(* into the output directory the first run left                             *)

RunAgain ==
    /\ pc = "done"
    /\ history = <<>>
    /\ history' = <<[result |-> result, images_out |-> images_out,
                     points3d_out |-> points3d_out, files_out |-> files_out]>>
    /\ pc' = "detect"
    /\ result' = NoResult
    /\ kept_ids' = {}
    /\ UNCHANGED <<runner, state_json, requests, images_in, points3d_in, ply, args,
                   files_out, images_out, points3d_out>>

NextRerun == Next \/ RunAgain

----------------------------------------------------------------------------
(* cli/train_cmd.py, web/runner.py: the training step chooses its source    *)
(* directory after the clean step has ended                                 *)

\* the clean folder when it holds cameras.txt, else the COLMAP source when
\* that holds cameras.txt, else nothing (the command exits)
ChooseTrainSource ==
    /\ pc \in {"done", "failed"}
    /\ result' = [op |-> "train", clean |-> result,
                  source_dir |-> IF "cameras.txt" \in files_out THEN "clean"
                                 ELSE IF "cameras.txt" \in args.files THEN "source"
                                 ELSE "none"]
    /\ pc' = "train"
    /\ UNCHANGED <<runner, state_json, requests, history, images_in, points3d_in, ply, args, files_out,
                   images_out, points3d_out, kept_ids>>

NextTrain == Next \/ ChooseTrainSource

SpecTrain == InitRun /\ [][NextTrain]_vars

SpecRerun == InitRun /\ [][NextRerun]_vars

----------------------------------------------------------------------------
(* Properties of reference repair *)

\* the point references of a table, image by image
RefsOf(f) ==
    LET imgs == parse_images_txt(f) IN
    [j \in 1..Len(imgs) |->
        [k \in 1..Len(imgs[j].points2d) |-> imgs[j].points2d[k].point3d_id]]

\* C1: reference repair closure -- after clean_points2d_refs, every
\* observation of every image of the output table refers to the sentinel or
\* to a point of the surviving set
RepairClosure ==
    pc = "repaired" =>
        \A j \in DOMAIN RefsOf(images_out) :
            \A k \in DOMAIN RefsOf(images_out)[j] :
                \/ RefsOf(images_out)[j][k] = SENTINEL
                \/ RefsOf(images_out)[j][k] \in kept_ids

\* C3: reference repair changes nothing but dangling references -- every
\* image keeps its pose line, the number, order and pixel coordinates of its
\* observations; a reference naming a surviving point is unchanged, every
\* other reference is the sentinel
RepairFrame ==
    pc = "repaired" =>
        LET before == parse_images_txt(images_in)
            after == parse_images_txt(images_out) IN
        /\ Len(after) = Len(before)
        /\ \A j \in 1..Len(before) :
            /\ after[j].pose_line = before[j].pose_line
            /\ Len(after[j].points2d) = Len(before[j].points2d)
            /\ \A k \in 1..Len(before[j].points2d) :
                LET o == before[j].points2d[k]
                    n == after[j].points2d[k] IN
                /\ n.x = o.x
                /\ n.y = o.y
                /\ n.point3d_id = IF o.point3d_id \in kept_ids
                                  THEN o.point3d_id ELSE SENTINEL

\* C4: reference repair statistics -- total_refs counts the observations of
\* all images, total_refs = kept_refs + cleaned_refs, and kept_refs counts
\* exactly the references naming a surviving point
RepairStatistics ==
    pc = "repaired" =>
        LET refs == RefsOf(images_in)
            total == SumSeq([j \in 1..Len(refs) |-> Len(refs[j])])
            good == SumSeq([j \in 1..Len(refs) |->
                        Cardinality({k \in 1..Len(refs[j]) : refs[j][k] \in kept_ids})]) IN
        /\ result.total_refs = total
        /\ result.total_refs = result.kept_refs + result.cleaned_refs
        /\ result.kept_refs = good

----------------------------------------------------------------------------
(* Properties of camera removal *)

CommentsOf(f) == SelectSeq(f, LAMBDA l : l.c)

\* the (pose line, observation line) pairs of a table
PairsOf(f) ==
    LET imgs == parse_images_txt(f) IN
    [j \in 1..Len(imgs) |-> <<imgs[j].pose_line, imgs[j].points2d_line>>]

\* one line of t is matched against the next line of s not yet found
MatchLine(s, t, st) ==
    IF st.j <= Len(s) /\ s[st.j] = t[st.i]
    THEN [i |-> st.i + 1, j |-> st.j + 1]
    ELSE [st EXCEPT !.i = @ + 1]

RECURSIVE MatchLines(_, _, _, _)
MatchLines(s, t, st, n) ==
    IF n = 0 \/ st.i > Len(t) THEN st
    ELSE IF n = 1 THEN MatchLine(s, t, st)
    ELSE MatchLines(s, t, MatchLines(s, t, st, n \div 2), n - n \div 2)

\* s is t with some lines left out
IsSubSeq(s, t) == MatchLines(s, t, [i |-> 1, j |-> 1], Len(t)).j > Len(s)

\* C6: auto threshold -- without an explicit threshold the threshold used
\* is max(min_threshold, d_p * multiplier), d_p being the distance at the
\* given percentile over all cameras
AutoThresholdHonoursArguments ==
    (pc = "removed" /\ args.op = "remove_outlier_cameras_auto"
        /\ args.threshold = NoThreshold) =>
        LET cameras == result.analysis.cameras
            n == Len(cameras)
            sorted_d == SortAsc([k \in 1..n |->
                            Dist2(cameras[k], result.analysis.median)])
            d_p == sorted_d[PercentileIndex(n, args.percentile.num,
                                            args.percentile.den) + 1] IN
        result.threshold_used =
            ThresholdSq16(args.min_threshold, args.multiplier.num,
                          args.multiplier.den, d_p)

\* C7: camera removal keeps pose/observation pairs atomic -- the output
\* holds every comment line and, in input order, the pose line followed by
\* the observation line of exactly the images whose name is not an outlier
\* name; kept + removed is the number of input images and removed the number
\* of images bearing an outlier name
RemovalKeepsPairs ==
    pc = "removed" =>
        LET before == PairsOf(images_in)
            names == result.outlier_names
            NotOutlier(pair) == pair[1].t[10] \notin names IN
        /\ PairsOf(images_out) = SelectSeq(before, NotOutlier)
        /\ CommentsOf(images_out) = CommentsOf(images_in)
        /\ Len(images_out) = Len(CommentsOf(images_in)) + 2 * result.kept
        /\ IsSubSeq(images_out, images_in)
        /\ result.kept + result.removed = Len(before)
        /\ result.removed =
              Cardinality({j \in 1..Len(before) : ~NotOutlier(before[j])})

\* an image was removed, another kept, and a comment line carried over
RemovalWitness ==
    /\ pc = "removed"
    /\ result.removed >= 1
    /\ result.kept >= 1
    /\ CommentsOf(images_in) # <<>>
    /\ \E j \in 1..Len(PairsOf(images_out)) : PairsOf(images_out)[j][2] # BlankLine

----------------------------------------------------------------------------
(* Properties of the spatial filter *)

\* C8: spatial filter exactness -- a candidate point is written and its ID
\* survives if and only if some reference point lies within the threshold
\* (distance <= threshold); the surviving set is the set of IDs of the
\* output table and points_after + points_removed = points_before
FilterExactness ==
    pc = "filtered" =>
        LET coords == ply_vertices_to_colmap_coords(ply.vertices, args.transform)
            before == parse_points3d_txt(points3d_in)
            after == parse_points3d_txt(points3d_out)
            Near(pt) == \E k \in 1..Len(coords) :
                DistSq(coords[k], <<pt.x, pt.y, pt.z>>)
                    <= args.threshold * args.threshold IN
        /\ after = SelectSeq(before, Near)
        /\ kept_ids = {before[j].point3d_id : j \in {i \in 1..Len(before) : Near(before[i])}}
        /\ kept_ids = {after[j].point3d_id : j \in 1..Len(after)}
        /\ result.points_after + result.points_removed = result.points_before

----------------------------------------------------------------------------
(* Properties of the cleaning run *)

ImageIdsOf(f) ==
    {parse_images_txt(f)[j].image_id : j \in 1..Len(parse_images_txt(f))}

\* C2: track integrity -- after a complete run every track entry of every
\* point of the output point table names an image of the output image table
TrackIntegrity ==
    pc = "done" =>
        LET pts == parse_points3d_txt(points3d_out)
            ids == ImageIdsOf(images_out) IN
        \A j \in 1..Len(pts) :
            \A k \in 1..Len(pts[j].track) : pts[j].track[k].image_id \in ids

\* the k-th smallest of xs, found by counting
OrderStat(xs, k) ==
    CHOOSE v \in {xs[i] : i \in 1..Len(xs)} :
        /\ Cardinality({i \in 1..Len(xs) : xs[i] < v}) < k
        /\ k <= Cardinality({i \in 1..Len(xs) : xs[i] <= v})

\* twice the median of xs
MedianByCount2(xs) ==
    LET n == Len(xs) IN
    IF n % 2 = 1 THEN 2 * OrderStat(xs, (n + 1) \div 2)
    ELSE OrderStat(xs, n \div 2) + OrderStat(xs, n \div 2 + 1)

\* C5: outlier classification -- the centre is the coordinate-wise median of
\* the positions of all cameras, and a camera is listed as outlier if and
\* only if its distance to the centre is strictly greater than the threshold
\* in use (the auto threshold, or the configured one); a camera at exactly
\* the threshold is kept
OutlierClassification ==
    pc \in {"points", "refs", "done"} =>
        LET imgs == parse_images_txt(images_in)
            n == Len(imgs)
            ca == result.camera_analysis
            centre == [tx |-> MedianByCount2([k \in 1..n |-> imgs[k].tx]),
                       ty |-> MedianByCount2([k \in 1..n |-> imgs[k].ty]),
                       tz |-> MedianByCount2([k \in 1..n |-> imgs[k].tz])]
            FourDistSq(k) == Sq(2 * imgs[k].tx - centre.tx)
                                + Sq(2 * imgs[k].ty - centre.ty)
                                + Sq(2 * imgs[k].tz - centre.tz)
            Listed(k) == \E j \in 1..Len(ca.outliers) :
                            /\ ca.outliers[j].name = imgs[k].name
                            /\ ca.outliers[j].tx = imgs[k].tx
                            /\ ca.outliers[j].ty = imgs[k].ty
                            /\ ca.outliers[j].tz = imgs[k].tz IN
        /\ ca.total = n
        /\ ca.median_position = centre
        /\ ~args.clean_config.outlier_threshold_auto =>
              ca.threshold_used = 16 * Sq(args.clean_config.outlier_threshold_fixed)
        /\ \A k \in 1..n : Listed(k) <=> 4 * FourDistSq(k) > ca.threshold_used
        /\ ca.outliers_found = Cardinality({k \in 1..n : 4 * FourDistSq(k) > ca.threshold_used})

\* two cameras at exactly the configured threshold from their centre were kept
TieKeptWitness ==
    /\ pc = "done"
    /\ result.camera_analysis.threshold_mode = "fixed"
    /\ result.camera_analysis.total = 2
    /\ result.camera_analysis.outliers_found = 0
    /\ \E k \in 1..2 :
          4 * Dist2(result.camera_analysis.cameras[k],
                    result.camera_analysis.median_position)
              = result.camera_analysis.threshold_used

\* C9: an empty reference cloud makes the run fail with a configuration
\* error, raised before any output file has been written
EmptyCloudFailsBeforeOutput ==
    (ply.found /\ ply.vertices = <<>> /\ pc \in {"refs", "done", "failed"}) =>
        /\ pc = "failed"
        /\ result.error = "ConfigurationError"
        /\ files_out = {}

PointIdsOf(f) ==
    {parse_points3d_txt(f)[j].point3d_id : j \in 1..Len(parse_points3d_txt(f))}

\* C10: pass-through without a reference cloud -- the output point table is
\* the input point table, the surviving set is the set of the IDs of that
\* table, and repair rewrites only references to IDs absent from it
PassThroughWithoutCloud ==
    (pc = "done" /\ ~ply.found) =>
        LET before == parse_images_txt(images_in)
            after == parse_images_txt(images_out)
            ids == PointIdsOf(points3d_in) IN
        /\ points3d_out = points3d_in
        /\ kept_ids = ids
        /\ \A j \in 1..Len(after) :
            \E i \in 1..Len(before) :
                /\ before[i].pose_line = after[j].pose_line
                /\ Len(before[i].points2d) = Len(after[j].points2d)
                /\ \A k \in 1..Len(after[j].points2d) :
                    LET o == before[i].points2d[k]
                        n == after[j].points2d[k] IN
                    /\ n.x = o.x
                    /\ n.y = o.y
                    /\ \/ n.point3d_id = o.point3d_id
                       \/ n.point3d_id = SENTINEL /\ o.point3d_id \notin ids

\* a run without a cloud kept a reference to a point of the table and
\* rewrote a reference to a point missing from it
PassThroughWitness ==
    /\ pc = "done"
    /\ ~ply.found
    /\ points3d_out # <<>>
    /\ result.points2d_clean.kept_refs >= 1
    /\ \E j \in 1..Len(parse_images_txt(images_out)) :
          LET img == parse_images_txt(images_out)[j] IN
          /\ Len(img.points2d) = 1
          /\ img.points2d[1].point3d_id = SENTINEL
          /\ \E i \in 1..Len(parse_images_txt(images_in)) :
                /\ parse_images_txt(images_in)[i].pose_line = img.pose_line
                /\ parse_images_txt(images_in)[i].points2d[1].point3d_id # SENTINEL

----------------------------------------------------------------------------
(* Format detection on its own: detect_colmap_format applied to a directory *)
(* holding any subset of the six table files                                *)

InitDetect ==
    /\ pc = "call"
    /\ args \in {[op |-> "detect_colmap_format", files |-> S] :
                    S \in SUBSET (TxtFiles \cup BinFiles)}
    /\ images_in = <<>>
    /\ points3d_in = <<>>
    /\ ply = NoPly
    /\ kept_ids = {}
    /\ files_out = {}
    /\ images_out = <<>>
    /\ points3d_out = <<>>
    /\ result = NoResult
    /\ history = <<>>
    /\ runner = NoRunner
    /\ state_json = NoFile
    /\ requests = <<>>

DetectColmapFormat ==
    /\ pc = "call"
    /\ args.op = "detect_colmap_format"
    /\ result' = [op |-> args.op, fmt |-> detect_colmap_format(args.files)]
    /\ pc' = "detected"
    /\ UNCHANGED <<runner, state_json, requests, history, images_in, points3d_in, ply, args, files_out, images_out,
                   points3d_out, kept_ids>>

NextDetect == DetectColmapFormat

SpecDetect == InitDetect /\ [][NextDetect]_vars

\* C11: format detection decision table -- the answer is "text" exactly when
\* the three .txt files are all present, "binary" exactly when the three
\* .bin files are all present and the .txt set is not complete, and
\* "unknown" for every other mix of files
FormatDecisionTable ==
    pc = "detected" =>
        LET n_txt == Cardinality({f \in args.files : f \in TxtFiles})
            n_bin == Cardinality({f \in args.files : f \in BinFiles}) IN
        /\ result.fmt \in {"text", "binary", "unknown"}
        /\ result.fmt = "text" <=> n_txt = 3
        /\ result.fmt = "binary" <=> (n_bin = 3 /\ n_txt < 3)
        /\ (n_txt < 3 /\ n_bin < 3) => result.fmt = "unknown"

\* a directory mixing the two conventions, neither complete, was reported
\* unknown
MixedFormatWitness ==
    /\ pc = "detected"
    /\ "cameras.txt" \in args.files
    /\ "images.bin" \in args.files
    /\ Cardinality(args.files) = 4
    /\ result.fmt = "unknown"

----------------------------------------------------------------------------
(* colmap/parsers_bin.py and colmap/parsers.py: the camera table            *)
(*                                                                          *)
(* cameras.bin is [num |-> the leading count, body |-> the fields that      *)
(* follow, in file order].  A model name is a name code: the name of model  *)
(* i of CAMERA_MODELS is i, "UNKNOWN_<i>" is 100 + i.                       *)

MaxBinCameras == 2    \* camera records of a cameras.bin
MaxTxtRecords == 2    \* lines of a cameras.txt or of a points3D.txt
MaxTxtLines == 3      \* lines of an images.txt

\* CAMERA_MODELS[i + 1] is the parameter count of model i, i in 0..10
CAMERA_MODELS == <<3, 4, 4, 5, 8, 8, 12, 5, 4, 5, 12>>

KnownModel(model_id) == model_id \in 0..(Len(CAMERA_MODELS) - 1)

\* CAMERA_MODELS.get(model_id, (f"UNKNOWN_{model_id}", 0))
ModelOf(model_id) ==
    IF KnownModel(model_id)
    THEN [name |-> model_id, num_params |-> CAMERA_MODELS[model_id + 1]]
    ELSE [name |-> 100 + model_id, num_params |-> 0]

\* the cameras yielded before the end of the file or before a read past it
\* (struct.error)
RECURSIVE ReadCamerasBin(_, _, _, _)
ReadCamerasBin(body, i, n, acc) ==
    IF n = 0 THEN [error |-> "none", cameras |-> acc]
    ELSE IF i + 3 > Len(body) THEN [error |-> "struct.error", cameras |-> acc]
    ELSE LET m == ModelOf(body[i + 1]) IN
         IF i + 3 + m.num_params > Len(body)
         THEN [error |-> "struct.error", cameras |-> acc]
         ELSE ReadCamerasBin(body, i + 4 + m.num_params, n - 1,
                  Append(acc, [camera_id |-> body[i], model |-> m.name,
                               width |-> body[i + 2], height |-> body[i + 3],
                               params |-> SubSeq(body, i + 4, i + 3 + m.num_params)]))

parse_cameras_bin(f) == ReadCamerasBin(f.body, 1, f.num, <<>>)

\* a line with fewer than four fields raises IndexError
RECURSIVE ReadCamerasTxt(_, _, _)
ReadCamerasTxt(f, i, acc) ==
    IF i > Len(f) THEN [error |-> "none", cameras |-> acc]
    ELSE IF f[i].c \/ f[i].t = <<>> THEN ReadCamerasTxt(f, i + 1, acc)
    ELSE IF Len(f[i].t) < 4 THEN [error |-> "IndexError", cameras |-> acc]
    ELSE ReadCamerasTxt(f, i + 1,
             Append(acc, [camera_id |-> f[i].t[1], model |-> f[i].t[2],
                          width |-> f[i].t[3], height |-> f[i].t[4],
                          params |-> SubSeq(f[i].t, 5, Len(f[i].t))]))

parse_cameras_txt(f) == ReadCamerasTxt(f, 1, <<>>)

\* camera records as they lie in a cameras.bin: SIMPLE_PINHOLE and PINHOLE
\* with their parameters, and model 11, which the table does not know,
\* with two or with no parameters
BinCameraRecords ==
    {<<1, 0, 4, 3, 7, 7, 7>>, <<2, 1, 4, 3, 7, 7, 7, 7>>,
     <<3, 11, 4, 3, 7, 7>>, <<3, 11, 4, 3>>}

BinCameraFiles ==
    {[num |-> Len(rs), body |-> Flatten(rs)] :
        rs \in SeqUpTo(BinCameraRecords, MaxBinCameras)}

\* lines of a cameras.txt: PINHOLE with four and with one parameter, a model
\* name outside the table, a comment
TxtCameraLines ==
    {[c |-> FALSE, t |-> <<1, 1, 4, 3, 7, 7, 7, 7>>],
     [c |-> FALSE, t |-> <<2, 1, 4, 3, 7>>],
     [c |-> FALSE, t |-> <<3, 50, 4, 3, 7>>],
     CommentLine}

\* A 64-bit field on the wire is its eight bytes, least significant first.
\* A decoded integer is [neg, mag]: its sign and the eight bytes of its
\* magnitude.

\* 2^64 - w for w # 0: every byte inverted, then one added
Negate(w) ==
    [k \in 1..8 |->
        (255 - w[k] + (IF \A j \in 1..(k - 1) : w[j] = 0 THEN 1 ELSE 0)) % 256]

\* struct.unpack("<Q", ...)
unpack_Q(w) == [neg |-> FALSE, mag |-> w]

unpack_q_unsigned(w) == [neg |-> FALSE, mag |-> w]
\* struct.unpack("<q", ...): two's complement
unpack_q(w) ==
    IF w[8] >= 128 THEN [neg |-> TRUE, mag |-> Negate(w)]
    ELSE [neg |-> FALSE, mag |-> w]

\* wire values around 0, 2^63 and 2^64
Wires ==
    {<<lo, m, m, m, m, m, m, hi>> :
        lo \in {0, 1, 254, 255}, m \in {0, 255}, hi \in {0, 127, 128, 255}}

\* struct.pack("<q", n) for -256 < n < 256
pack_q(n) ==
    IF n < 0 THEN Negate(<<0 - n, 0, 0, 0, 0, 0, 0, 0>>)
    ELSE <<n, 0, 0, 0, 0, 0, 0, 0>>

\* the integer [neg, mag] when its magnitude is below 2^16
IntOf(v) == (IF v.neg THEN 0 - 1 ELSE 1) * (v.mag[1] + 256 * v.mag[2])

\* A file name is a name code: 0 is the empty name, 1..9 are names of one
\* word, 10 * a + b is the name "a b".  name.split():
Words(name) ==
    IF name = 0 THEN <<>>
    ELSE IF name < 10 THEN <<name>>
    ELSE <<name \div 10, name % 10>>

\* images.bin and points3D.bin are the sequences of their records, 64-bit
\* IDs as on the wire
parse_images_bin(f) ==
    [j \in 1..Len(f) |->
        [image_id |-> f[j].image_id,
         qw |-> f[j].qw, qx |-> f[j].qx, qy |-> f[j].qy, qz |-> f[j].qz,
         tx |-> f[j].tx, ty |-> f[j].ty, tz |-> f[j].tz,
         camera_id |-> f[j].camera_id,
         name |-> f[j].name,
         points2d |-> [k \in 1..Len(f[j].points2d) |->
            [x |-> f[j].points2d[k].x, y |-> f[j].points2d[k].y,
             point3d_id |-> IntOf(unpack_q(f[j].points2d[k].point3d_id))]]]]

parse_points3d_bin(f) ==
    [j \in 1..Len(f) |-> [f[j] EXCEPT !.point3d_id = IntOf(unpack_Q(@))]]

write_cameras_txt(cameras) ==
    <<CommentLine, CommentLine>>
        \o [j \in 1..Len(cameras) |->
              [c |-> FALSE,
               t |-> <<cameras[j].camera_id, cameras[j].model, cameras[j].width,
                       cameras[j].height>> \o cameras[j].params]]

write_images_txt_skip_empty(images) ==
    <<CommentLine, CommentLine, CommentLine>>
        \o Flatten([j \in 1..Len(images) |->
              <<[c |-> FALSE,
                 t |-> <<images[j].image_id, images[j].qw, images[j].qx,
                         images[j].qy, images[j].qz, images[j].tx, images[j].ty,
                         images[j].tz, images[j].camera_id>>
                            \o Words(images[j].name)]>>
              \o (IF images[j].points2d = <<>> THEN <<>>
                  ELSE <<[c |-> FALSE,
                          t |-> Flatten([k \in 1..Len(images[j].points2d) |->
                                  <<images[j].points2d[k].x, images[j].points2d[k].y,
                                    images[j].points2d[k].point3d_id>>])]>>)])
\* the header, then for every image its pose line and its observation line
write_images_txt(images) ==
    <<CommentLine, CommentLine, CommentLine>>
        \o Flatten([j \in 1..Len(images) |->
              <<[c |-> FALSE,
                 t |-> <<images[j].image_id, images[j].qw, images[j].qx,
                         images[j].qy, images[j].qz, images[j].tx, images[j].ty,
                         images[j].tz, images[j].camera_id>>
                            \o Words(images[j].name)],
                [c |-> FALSE,
                 t |-> Flatten([k \in 1..Len(images[j].points2d) |->
                         <<images[j].points2d[k].x, images[j].points2d[k].y,
                           images[j].points2d[k].point3d_id>>])]>>])

write_points3d_txt(points) ==
    <<CommentLine, CommentLine>>
        \o [j \in 1..Len(points) |->
              [c |-> FALSE,
               t |-> <<points[j].point3d_id, points[j].x, points[j].y, points[j].z,
                       points[j].r, points[j].g, points[j].b, points[j].error>>
                        \o Flatten([k \in 1..Len(points[j].track) |->
                              <<points[j].track[k].image_id,
                                points[j].track[k].point2d_idx>>])]]

MaxBinImages == 2     \* image records of an images.bin

\* image records: an empty name, a name of one word, a name of two words;
\* no observation, one referring to point 1, one unmatched
BinImageRecords ==
    {[image_id |-> 1, qw |-> 1, qx |-> 0, qy |-> 0, qz |-> 0,
      tx |-> 0, ty |-> 0, tz |-> 0, camera_id |-> 1, name |-> n, points2d |-> o] :
        n \in {0, 1, 12},
        o \in {<<>>} \cup {<<[x |-> 101, y |-> 201, point3d_id |-> pack_q(r)]>> :
                              r \in {1, SENTINEL}}}

BinPointFiles ==
    {<<>>} \cup
    {<<[point3d_id |-> pack_q(1), x |-> 0, y |-> 0, z |-> 0,
        r |-> 0, g |-> 0, b |-> 0, error |-> 0, track |-> t]>> :
        t \in {<<>>, <<[image_id |-> 1, point2d_idx |-> 0]>>}}

BinReconstructions ==
    {[op |-> "convert_colmap_bin_to_txt", images_bin |-> i, points3d_bin |-> p,
      cameras_bin |-> c] :
        i \in SeqUpTo(BinImageRecords, MaxBinImages), p \in BinPointFiles,
        c \in {[num |-> 0, body |-> <<>>],
                [num |-> 1, body |-> <<2, 1, 4, 3, 7, 7, 7, 7>>]}}

\* lines of an images.txt: a pose line, one whose name holds a blank (eleven
\* fields), one without a name (nine fields), observation lines with three
\* and with four fields, a blank line, a comment
TxtImageLines ==
    {PoseLine(1, <<0, 0, 0>>, 1),
     [c |-> FALSE, t |-> <<1, 1, 0, 0, 0, 0, 0, 0, 1, 1, 2>>],
     [c |-> FALSE, t |-> <<1, 1, 0, 0, 0, 0, 0, 0, 1>>],
     ObsLine(<<1>>, 0), ObsLine(<<1>>, 1), BlankLine, CommentLine}

\* lines of a points3D.txt: a point with a track of one entry, one whose
\* track lacks its last field, a line of four fields, a comment
TxtPointLines ==
    {PointLine(1, <<0, 0, 0>>, <<1, 0>>), PointLine(1, <<0, 0, 0>>, <<1>>),
     [c |-> FALSE, t |-> <<1, 0, 0, 0>>], CommentLine}

CodecCalls ==
    {[op |-> "parse_cameras_bin", cameras_bin |-> f] : f \in BinCameraFiles}
        \cup {[op |-> "parse_cameras_txt", cameras_txt |-> f] :
                f \in SeqUpTo(TxtCameraLines, MaxTxtRecords)}
        \cup {[op |-> "parse_images_txt"], [op |-> "parse_points3d_txt"]}
        \cup {[op |-> "unpack", field |-> f, wire |-> w] :
                f \in {"points2d.point3d_id", "point3d_id"}, w \in Wires}
        \cup BinReconstructions

InitCodec ==
    /\ pc = "call"
    /\ args \in CodecCalls
    /\ images_in \in IF args.op = "parse_images_txt"
                     THEN SeqUpTo(TxtImageLines, MaxTxtLines) ELSE {<<>>}
    /\ points3d_in \in IF args.op = "parse_points3d_txt"
                       THEN SeqUpTo(TxtPointLines, MaxTxtRecords) ELSE {<<>>}
    /\ ply = NoPly
    /\ kept_ids = {}
    /\ files_out = {}
    /\ images_out = <<>>
    /\ points3d_out = <<>>
    /\ result = NoResult
    /\ history = <<>>
    /\ runner = NoRunner
    /\ state_json = NoFile
    /\ requests = <<>>

ParseCamerasBin ==
    /\ pc = "call"
    /\ args.op = "parse_cameras_bin"
    /\ LET r == parse_cameras_bin(args.cameras_bin) IN
        result' = [op |-> args.op, error |-> r.error, cameras |-> r.cameras]
    /\ pc' = "parsed"
    /\ UNCHANGED <<runner, state_json, requests, history, images_in, points3d_in, ply, args, files_out, images_out,
                   points3d_out, kept_ids>>

ParseCamerasTxt ==
    /\ pc = "call"
    /\ args.op = "parse_cameras_txt"
    /\ LET r == parse_cameras_txt(args.cameras_txt) IN
        result' = [op |-> args.op, error |-> r.error, cameras |-> r.cameras]
    /\ pc' = "parsed"
    /\ UNCHANGED <<runner, state_json, requests, history, images_in, points3d_in, ply, args, files_out, images_out,
                   points3d_out, kept_ids>>

\* the text readers of images and points raise nothing on the lines of the
\* domain, whose fields are all numbers
ParseImagesTxt ==
    /\ pc = "call"
    /\ args.op = "parse_images_txt"
    /\ result' = [op |-> args.op, error |-> "none",
                  images |-> parse_images_txt(images_in)]
    /\ pc' = "parsed"
    /\ UNCHANGED <<runner, state_json, requests, history, images_in, points3d_in, ply, args, files_out, images_out,
                   points3d_out, kept_ids>>

ParsePoints3dTxt ==
    /\ pc = "call"
    /\ args.op = "parse_points3d_txt"
    /\ result' = [op |-> args.op, error |-> "none",
                  points |-> parse_points3d_txt(points3d_in)]
    /\ pc' = "parsed"
    /\ UNCHANGED <<runner, state_json, requests, history, images_in, points3d_in, ply, args, files_out, images_out,
                   points3d_out, kept_ids>>

\* parse_images_bin reads the point reference of an observation with "<q",
\* parse_points3d_bin reads the ID of a point with "<Q"
UnpackInt64 ==
    /\ pc = "call"
    /\ args.op = "unpack"
    /\ result' = [op |-> args.op,
                  value |-> IF args.field = "points2d.point3d_id"
                            THEN unpack_q(args.wire) ELSE unpack_Q(args.wire)]
    /\ pc' = "unpacked"
    /\ UNCHANGED <<runner, state_json, requests, history, images_in, points3d_in, ply, args, files_out, images_out,
                   points3d_out, kept_ids>>

\* the three binary tables are parsed and written as text tables
ConvertColmapBinToTxt ==
    /\ pc = "call"
    /\ args.op = "convert_colmap_bin_to_txt"
    /\ parse_cameras_bin(args.cameras_bin).error = "none"
    /\ result' = [op |-> args.op,
                  cameras_out |->
                      write_cameras_txt(parse_cameras_bin(args.cameras_bin).cameras)]
    /\ images_out' = write_images_txt(parse_images_bin(args.images_bin))
    /\ points3d_out' = write_points3d_txt(parse_points3d_bin(args.points3d_bin))
    /\ files_out' = TxtFiles
    /\ pc' = "converted"
    /\ UNCHANGED <<runner, state_json, requests, history, images_in, points3d_in, ply, args, kept_ids>>

\* the records read from a text table are written back as a text table
WriteTxt ==
    /\ pc = "parsed"
    /\ args.op \in {"parse_cameras_txt", "parse_images_txt", "parse_points3d_txt"}
    /\ result.error = "none"
    /\ result' = IF args.op = "parse_cameras_txt"
                 THEN result @@ [cameras_out |-> write_cameras_txt(result.cameras)]
                 ELSE result
    /\ images_out' = IF args.op = "parse_images_txt"
                     THEN write_images_txt(result.images) ELSE images_out
    /\ points3d_out' = IF args.op = "parse_points3d_txt"
                       THEN write_points3d_txt(result.points) ELSE points3d_out
    /\ files_out' = {CASE args.op = "parse_cameras_txt" -> "cameras.txt"
                       [] args.op = "parse_images_txt" -> "images.txt"
                       [] args.op = "parse_points3d_txt" -> "points3D.txt"}
    /\ pc' = "written"
    /\ UNCHANGED <<runner, state_json, requests, history, images_in, points3d_in, ply, args, kept_ids>>

NextCodec ==
    \/ UnpackInt64
    \/ WriteTxt
    \/ ConvertColmapBinToTxt
    \/ ParseCamerasBin
    \/ ParseCamerasTxt
    \/ ParseImagesTxt
    \/ ParsePoints3dTxt

SpecCodec == InitCodec /\ [][NextCodec]_vars

\* C12: a camera record with a model tag outside the table is a parse
\* error -- every camera yielded by the binary or the text reader bears a
\* model of the table and exactly that model's number of parameters
UnknownModelIsParseError ==
    (pc = "parsed" /\ args.op \in {"parse_cameras_bin", "parse_cameras_txt"}) =>
        \A k \in 1..Len(result.cameras) :
            /\ KnownModel(result.cameras[k].model)
            /\ Len(result.cameras[k].params)
                  = CAMERA_MODELS[result.cameras[k].model + 1]

\* C13: malformed text records fail loudly -- reading an image table with a
\* line that is neither a pose line (ten fields or more) nor an observation
\* line (a multiple of three fields), or a point table with a line of fewer
\* than eight fields or with an odd-length track, raises an error
MalformedLinesFailLoudly ==
    /\ (pc = "parsed" /\ args.op = "parse_images_txt") =>
          ((\E i \in 1..Len(images_in) :
                /\ ~images_in[i].c
                /\ Len(images_in[i].t) < 10
                /\ Len(images_in[i].t) % 3 # 0)
             => result.error # "none")
    /\ (pc = "parsed" /\ args.op = "parse_points3d_txt") =>
          ((\E i \in 1..Len(points3d_in) :
                /\ ~points3d_in[i].c
                /\ points3d_in[i].t # <<>>
                /\ \/ Len(points3d_in[i].t) < 8
                   \/ Len(points3d_in[i].t) % 2 = 1)
             => result.error # "none")

\* the carry into byte k of the sum of the byte strings a and b
RECURSIVE CarryInto(_, _, _)
CarryInto(a, b, k) ==
    IF k = 1 THEN 0
    ELSE (a[k - 1] + b[k - 1] + CarryInto(a, b, k - 1)) \div 256

\* a + b = 2^64
SumIsTwoTo64(a, b) ==
    /\ \A k \in 1..8 : (a[k] + b[k] + CarryInto(a, b, k)) % 256 = 0
    /\ CarryInto(a, b, 9) = 1

\* C14: signed versus unsigned 64-bit fields -- the point reference of an
\* observation decodes to w for w < 2^63 and to w - 2^64 otherwise (all ones
\* is -1); the ID of a point decodes to w itself and is never negative
SignedVersusUnsigned ==
    pc = "unpacked" =>
        LET w == args.wire
            v == result.value IN
        IF args.field = "points2d.point3d_id"
        THEN /\ w[8] < 128 => v = [neg |-> FALSE, mag |-> w]
             /\ w[8] >= 128 => v.neg /\ SumIsTwoTo64(v.mag, w)
             /\ (\A k \in 1..8 : w[k] = 255)
                    => v = [neg |-> TRUE, mag |-> <<1, 0, 0, 0, 0, 0, 0, 0>>]
        ELSE v = [neg |-> FALSE, mag |-> w]

\* the all-ones reference of an observation was decoded to -1
SentinelDecodedWitness ==
    /\ pc = "unpacked"
    /\ args.field = "points2d.point3d_id"
    /\ args.wire = <<255, 255, 255, 255, 255, 255, 255, 255>>
    /\ result.value.neg
    /\ result.value.mag = <<1, 0, 0, 0, 0, 0, 0, 0>>

\* the fields of a record named in fields, in that order
Fields(rec, fields) == [k \in 1..Len(fields) |-> rec[fields[k]]]

ImageFields ==
    <<"image_id", "qw", "qx", "qy", "qz", "tx", "ty", "tz", "camera_id", "name",
      "points2d">>

PointFields == <<"point3d_id", "x", "y", "z", "r", "g", "b", "error", "track">>

\* C15: conversion equivalence -- parsing the text tables written by
\* convert_colmap_bin_to_txt yields, record for record, the cameras, images
\* and points that parsing the binary tables yields
ConversionEquivalence ==
    pc = "converted" =>
        LET bi == parse_images_bin(args.images_bin)
            ti == parse_images_txt(images_out)
            bp == parse_points3d_bin(args.points3d_bin)
            tp == parse_points3d_txt(points3d_out) IN
        /\ parse_cameras_txt(result.cameras_out)
              = parse_cameras_bin(args.cameras_bin)
        /\ [j \in 1..Len(ti) |-> Fields(ti[j], ImageFields)]
              = [j \in 1..Len(bi) |-> Fields(bi[j], ImageFields)]
        /\ [j \in 1..Len(tp) |-> Fields(tp[j], PointFields)]
              = [j \in 1..Len(bp) |-> Fields(bp[j], PointFields)]

\* C16: text codec round trip -- for each of the three tables, parsing the
\* table written from parse(x) recovers the records that were written, and
\* writing them again gives the same table:
\* write(parse(write(parse(x)))) = write(parse(x))
TextRoundTrip ==
    pc = "written" =>
        CASE args.op = "parse_cameras_txt" ->
                LET again == parse_cameras_txt(result.cameras_out) IN
                /\ again.error = "none"
                /\ again.cameras = result.cameras
                /\ write_cameras_txt(again.cameras) = result.cameras_out
          [] args.op = "parse_images_txt" ->
                LET again == parse_images_txt(images_out) IN
                /\ [j \in 1..Len(again) |-> Fields(again[j], ImageFields)]
                      = [j \in 1..Len(result.images) |->
                            Fields(result.images[j], ImageFields)]
                /\ write_images_txt(again) = images_out
          [] args.op = "parse_points3d_txt" ->
                LET again == parse_points3d_txt(points3d_out) IN
                /\ [j \in 1..Len(again) |-> Fields(again[j], PointFields)]
                      = [j \in 1..Len(result.points) |->
                            Fields(result.points[j], PointFields)]
                /\ write_points3d_txt(again) = points3d_out

\* an image table with a pose line of eleven fields and an image without
\* observations was read and written back
RoundTripWitness ==
    /\ pc = "written"
    /\ args.op = "parse_images_txt"
    /\ Len(result.images) = 2
    /\ Len(result.images[1].pose_line.t) = 11
    /\ result.images[1].points2d = <<>>
    /\ Len(images_out) = 7

\* C17: determinism and idempotence of the cleaning run -- a second run on
\* the same inputs and configuration, into the directory the first run left,
\* ends with the same output tables and the same statistics report, timings
\* included
RerunReproduces ==
    (pc = "done" /\ history # <<>>) =>
        /\ images_out = history[1].images_out
        /\ points3d_out = history[1].points3d_out
        /\ files_out = history[1].files_out
        /\ result = history[1].result

\* C18: partial output is never usable -- after a cleaning run that
\* aborted, the training step does not take the clean folder as its source
PartialOutputNeverUsed ==
    (pc = "train" /\ "error" \in DOMAIN result.clean) =>
        result.source_dir # "clean"

\* thresholds the outlier set of a table is compared at
ProbeThresholds == {0, 2, 5, 150, 300}

\* C19: outlier monotonicity -- on the same camera table, a threshold at
\* least as large gives a subset of the outlier names, no more cameras
\* removed and no fewer kept; a threshold at most as large gives the converse
OutlierMonotonicity ==
    (pc = "removed" /\ args.op = "remove_outlier_cameras_auto"
        /\ args.threshold # NoThreshold) =>
        \A t \in ProbeThresholds :
            LET other == remove_outlier_cameras_auto(images_in, t,
                            args.percentile, args.multiplier, args.min_threshold) IN
            /\ t >= args.threshold =>
                  /\ other.outlier_names \subseteq result.outlier_names
                  /\ other.removed <= result.removed
                  /\ other.kept >= result.kept
            /\ t <= args.threshold =>
                  /\ result.outlier_names \subseteq other.outlier_names
                  /\ result.removed <= other.removed
                  /\ result.kept >= other.kept

\* a table whose outlier set shrinks strictly from threshold 2 to 5 to 300
ShrinkingOutliersWitness ==
    /\ pc = "removed"
    /\ args.op = "remove_outlier_cameras_auto"
    /\ args.threshold = 5
    /\ result.removed = 1
    /\ result.kept = 2
    /\ OutlierNames(result.analysis, 16 * 300 * 300) = {}
    /\ Cardinality(OutlierNames(result.analysis, 16 * 2 * 2)) = 2

\* the position of the camera placed far away from the others
FarPosition == <<300, 0, 0>>

IsFar(cam) == <<cam.tx, cam.ty, cam.tz>> = FarPosition

\* with exactly one far camera and at least minN others, each coordinate of
\* the centre (doubled) lies between the others' minimum and maximum
CentreInsideCluster(minN) ==
    (pc = "removed" /\ args.op = "remove_outlier_cameras_auto") =>
        LET cameras == result.analysis.cameras
            med == result.analysis.median
            far == {k \in DOMAIN cameras : IsFar(cameras[k])}
            cluster == DOMAIN cameras \ far IN
        (Cardinality(far) = 1 /\ Cardinality(cluster) >= minN) =>
            /\ \E lo, hi \in cluster :
                  2 * cameras[lo].tx <= med.tx /\ med.tx <= 2 * cameras[hi].tx
            /\ \E lo, hi \in cluster :
                  2 * cameras[lo].ty <= med.ty /\ med.ty <= 2 * cameras[hi].ty
            /\ \E lo, hi \in cluster :
                  2 * cameras[lo].tz <= med.tz /\ med.tz <= 2 * cameras[hi].tz

\* C20: median robustness -- for N >= 2 clustered cameras plus one camera far
\* away, each coordinate of the centre computed by analyze_cameras lies within
\* the minimum and maximum of the clustered cameras' coordinates on that axis
MedianRobustness == CentreInsideCluster(2)

\* the statement for any N >= 1: with one clustered camera the centre is the
\* midpoint between it and the far camera
MedianRobustnessFromOne == CentreInsideCluster(1)

\* two distinct clustered cameras and the far one; the centre is the second
MedianRobustnessWitness ==
    /\ pc = "removed"
    /\ args.op = "remove_outlier_cameras_auto"
    /\ result.analysis.total = 3
    /\ Cardinality({k \in 1..3 : IsFar(result.analysis.cameras[k])}) = 1
    /\ result.analysis.median = [tx |-> 6, ty |-> 0, tz |-> 0]

----------------------------------------------------------------------------
(* Properties of the clean step on edge-case inputs *)

----------------------------------------------------------------------------
(* web/runner.py: PipelineRunner; core/project.py: Project.state,           *)
(* Project.record_step; web/routes/steps.py: cancel_step, approve_review    *)
(*                                                                          *)
(* pc is the position of the runner's thread in _run.  The runner holds one *)
(* Project whose copy of the state is loaded from state.json on first use   *)
(* and saved whole by record_step.  approve_review constructs a Project of  *)
(* its own.                                                                 *)

MaxSteps == 3        \* steps of one run
MaxLods == 2         \* enabled LOD levels of a project
MaxApprovals == 1    \* approve-review requests during one run

STEP_ORDER == <<"clean", "train", "review", "assemble", "export">>

\* the executors that call _check_cancel while the step is under way
PollingSteps == {"train", "assemble", "export"}

\* the step has no entry in state.json
NoEntry == "none"

\* Project._state is None
NotLoaded == [loaded |-> FALSE]

\* Project.state: the cached copy, read from state.json when there is none
StateOf(proj_state, disk) == IF proj_state.loaded THEN proj_state.steps ELSE disk.steps

get_step_status(proj_state, disk, step_name) == StateOf(proj_state, disk)[step_name]

\* Project.record_step: set the entry in the copy, save the copy
record_step(proj_state, disk, step_name, status) ==
    LET steps == [StateOf(proj_state, disk) EXCEPT ![step_name] = status] IN
    [state |-> [loaded |-> TRUE, steps |-> steps],
     disk |-> [exists |-> TRUE, steps |-> steps]]

\* the runner after an event of its thread is noted
Logged(r, event) == [r EXCEPT !.log = Append(@, event)]

\* the runner and state.json after the runner's Project records a step
Recorded(r, disk, step_name, status) ==
    LET w == record_step(r.state, disk, step_name, status) IN
    [runner |-> Logged([r EXCEPT !.state = w.state],
                       [ev |-> "record", step |-> step_name, status |-> status]),
     disk |-> w.disk]

\* _update(status=...)
Ended(r, status, error) ==
    Logged([r EXCEPT !.snapshot.status = status, !.snapshot.error = error],
           [ev |-> "status", step |-> r.snapshot.current_step, status |-> status])

\* the requested steps: selections of STEP_ORDER, in its order
RunSteps ==
    {st \in SeqUpTo(DOMAIN STEP_ORDER, MaxSteps) :
        \A i \in 1..(Len(st) - 1) : st[i] < st[i + 1]}

StepsOf(st) == [i \in 1..Len(st) |-> STEP_ORDER[st[i]]]

\* TrainResult.success of the enabled LOD levels, in order
TrainResults == SeqUpTo(BOOLEAN, MaxLods)

AllPending == [clean |-> NoEntry, train |-> NoEntry, review |-> NoEntry,
               assemble |-> NoEntry, export |-> NoEntry]

\* state.json when the run starts: a new project, or one whose review was
\* approved before
InitialStates ==
    {NoFile,
     [exists |-> TRUE, steps |-> AllPending],
     [exists |-> TRUE, steps |-> [AllPending EXCEPT !.review = "completed"]]}

RunnerCalls ==
    {[op |-> "run", steps |-> StepsOf(st), train_results |-> tr] :
        st \in RunSteps, tr \in TrainResults}

\* PipelineRunner.__init__
NewRunner(steps) ==
    [cancel_event |-> FALSE,
     snapshot |-> [status |-> "running",
                   current_step |-> IF steps # <<>> THEN steps[1] ELSE "",
                   progress |-> Ratio(0, 1), error |-> ""],
     step_idx |-> 0, lod |-> 0, in_lod |-> FALSE,
     state |-> NotLoaded, log |-> <<>>]

InitRunner ==
    /\ pc = "run_start"
    /\ args \in RunnerCalls
    \* the trainer's results are read by the train step only
    /\ (\A i \in DOMAIN args.steps : args.steps[i] # "train") => args.train_results = <<>>
    /\ runner = NewRunner(args.steps)
    /\ state_json \in InitialStates
    /\ requests = <<>>
    /\ images_in = <<>>
    /\ points3d_in = <<>>
    /\ ply = NoPly
    /\ kept_ids = {}
    /\ files_out = {}
    /\ images_out = <<>>
    /\ points3d_out = <<>>
    /\ result = NoResult
    /\ history = <<>>

CurrentStep == args.steps[runner.step_idx]

\* lines 120-122: no state.json in the project directory
RunProjectMissing ==
    /\ pc = "run_start"
    /\ ~state_json.exists
    /\ runner' = Ended(runner, "failed", "Project not found")
    /\ pc' = "run_ended"
    /\ UNCHANGED <<state_json, requests, history, images_in, points3d_in, ply, args,
                   files_out, images_out, points3d_out, kept_ids, result>>

\* lines 124-128: construct the Project, enter the loop
RunEnter ==
    /\ pc = "run_start"
    /\ state_json.exists
    /\ runner' = [runner EXCEPT !.step_idx = IF args.steps # <<>> THEN 1 ELSE 0]
    /\ pc' = IF args.steps # <<>> THEN "loop_top" ELSE "loop_end"
    /\ UNCHANGED <<state_json, requests, history, images_in, points3d_in, ply, args,
                   files_out, images_out, points3d_out, kept_ids, result>>

\* lines 129-141: the cancel event is not set; record the step as running
\* (the review step records its own status) and show it in the snapshot
BeginStep ==
    /\ pc = "loop_top"
    /\ ~runner.cancel_event
    /\ LET step_name == CurrentStep
           w == IF step_name # "review"
                THEN Recorded(runner, state_json, step_name, "running")
                ELSE [runner |-> runner, disk |-> state_json] IN
        /\ runner' = Logged([w.runner EXCEPT
                                !.snapshot.current_step = step_name,
                                !.snapshot.progress =
                                    Ratio(runner.step_idx - 1, Len(args.steps)),
                                !.lod = 0, !.in_lod = FALSE],
                            [ev |-> "begin", step |-> step_name, status |-> "running"])
        /\ state_json' = w.disk
        /\ pc' = IF step_name = "review" THEN "review_enter" ELSE "in_step"
    /\ UNCHANGED <<requests, history, images_in, points3d_in, ply, args,
                   files_out, images_out, points3d_out, kept_ids, result>>

\* _check_cancel raises (lines 129, 157, 201, 262, 287, 324, 371); lines
\* 161-166: record the snapshot's current step as cancelled
CancelObserved ==
    /\ \/ pc \in {"loop_top", "after_step", "review_wait"}
       \/ pc = "in_step" /\ CurrentStep \in PollingSteps
    /\ runner.cancel_event
    /\ LET current == runner.snapshot.current_step
           w == IF current # ""
                THEN Recorded(runner, state_json, current, "cancelled")
                ELSE [runner |-> runner, disk |-> state_json] IN
        /\ runner' = Ended(w.runner, "cancelled", "")
        /\ state_json' = w.disk
    /\ pc' = "run_ended"
    /\ UNCHANGED <<requests, history, images_in, points3d_in, ply, args,
                   files_out, images_out, points3d_out, kept_ids, result>>

\* lines 261-288: the cancel event is not set, the next LOD's training starts
TrainLodStart ==
    /\ pc = "in_step"
    /\ CurrentStep = "train"
    /\ ~runner.cancel_event
    /\ ~runner.in_lod
    /\ runner.lod < Len(args.train_results)
    /\ runner' = [runner EXCEPT !.in_lod = TRUE]
    /\ UNCHANGED <<pc, state_json, requests, history, images_in, points3d_in, ply,
                   args, files_out, images_out, points3d_out, kept_ids, result>>

\* lines 296-305: the trainer returns its TrainResult; the LOD is counted
TrainLodEnd ==
    /\ pc = "in_step"
    /\ CurrentStep = "train"
    /\ runner.in_lod
    /\ runner' = Logged([runner EXCEPT !.in_lod = FALSE, !.lod = @ + 1],
                        [ev |-> "lod", step |-> "train",
                         status |-> IF args.train_results[runner.lod + 1]
                                    THEN "success" ELSE "no success"])
    /\ UNCHANGED <<pc, state_json, requests, history, images_in, points3d_in, ply,
                   args, files_out, images_out, points3d_out, kept_ids, result>>

\* the executor returns: lines 181-185, 307-311, 347-351, 384-392
StepReturns ==
    /\ pc = "in_step"
    /\ CurrentStep = "train" =>
          /\ args.train_results # <<>>
          /\ runner.lod = Len(args.train_results)
    /\ LET w == Recorded(runner, state_json, CurrentStep, "completed") IN
        /\ runner' = Logged([w.runner EXCEPT
                                !.snapshot.progress =
                                    Ratio(runner.step_idx, Len(args.steps))],
                            [ev |-> "return", step |-> CurrentStep, status |-> "ok"])
        /\ state_json' = w.disk
    /\ pc' = "after_step"
    /\ UNCHANGED <<requests, history, images_in, points3d_in, ply, args,
                   files_out, images_out, points3d_out, kept_ids, result>>

\* the executor raises (train without an enabled LOD: lines 244-246);
\* lines 168-172: record the snapshot's current step as failed
StepRaises ==
    /\ pc = "in_step"
    /\ LET error == IF CurrentStep = "train" /\ args.train_results = <<>>
                    THEN "No LOD levels enabled" ELSE "step error"
           w == Recorded(Logged(runner, [ev |-> "raise", step |-> CurrentStep,
                                         status |-> error]),
                         state_json, runner.snapshot.current_step, "failed") IN
        /\ runner' = Ended(w.runner, "failed", error)
        /\ state_json' = w.disk
    /\ pc' = "run_ended"
    /\ UNCHANGED <<requests, history, images_in, points3d_in, ply, args,
                   files_out, images_out, points3d_out, kept_ids, result>>

\* the copy of the state re-read from state.json (proj._state = None)
Reloaded(r, disk) == [r EXCEPT !.state = [loaded |-> TRUE, steps |-> disk.steps]]

Passed(r) ==
    Logged([r EXCEPT !.snapshot.progress = Ratio(r.step_idx, Len(args.steps))],
           [ev |-> "return", step |-> "review", status |-> "ok"])

\* lines 190-196: re-read the state; an approved review passes at once
ReviewEnter ==
    /\ pc = "review_enter"
    /\ LET r == Reloaded(runner, state_json) IN
        IF get_step_status(r.state, state_json, "review") = "completed"
        THEN runner' = Passed(r) /\ pc' = "after_step"
        ELSE runner' = r /\ pc' = "review_record"
    /\ UNCHANGED <<state_json, requests, history, images_in, points3d_in, ply, args,
                   files_out, images_out, points3d_out, kept_ids, result>>

\* lines 198-199: record the review as waiting
ReviewRecordWaiting ==
    /\ pc = "review_record"
    /\ LET w == Recorded(runner, state_json, "review", "waiting") IN
        /\ runner' = w.runner
        /\ state_json' = w.disk
    /\ pc' = "review_wait"
    /\ UNCHANGED <<requests, history, images_in, points3d_in, ply, args,
                   files_out, images_out, points3d_out, kept_ids, result>>

\* lines 200-207: the cancel event is not set; re-read the state and leave
\* the loop when the review is completed, else sleep
ReviewPoll ==
    /\ pc = "review_wait"
    /\ ~runner.cancel_event
    /\ LET r == Reloaded(runner, state_json) IN
        IF get_step_status(r.state, state_json, "review") = "completed"
        THEN runner' = Passed(r) /\ pc' = "after_step"
        ELSE runner' = r /\ pc' = pc
    /\ UNCHANGED <<state_json, requests, history, images_in, points3d_in, ply, args,
                   files_out, images_out, points3d_out, kept_ids, result>>

AfterStepLeaves ==
    /\ pc = "after_step"
    /\ ~runner.cancel_event
    /\ pc' = "loop_end"
    /\ UNCHANGED <<runner, state_json, requests, history, images_in, points3d_in, ply,
                   args, files_out, images_out, points3d_out, kept_ids, result>>

\* line 157: the cancel event is not set; go to the next step or leave the loop
AfterStep ==
    /\ pc = "after_step"
    /\ ~runner.cancel_event
    /\ IF runner.step_idx < Len(args.steps)
       THEN runner' = [runner EXCEPT !.step_idx = @ + 1] /\ pc' = "loop_top"
       ELSE runner' = runner /\ pc' = "loop_end"
    /\ UNCHANGED <<state_json, requests, history, images_in, points3d_in, ply, args,
                   files_out, images_out, points3d_out, kept_ids, result>>

\* line 159
Complete ==
    /\ pc = "loop_end"
    /\ runner' = Ended([runner EXCEPT !.snapshot.progress = Ratio(1, 1)],
                       "completed", "")
    /\ pc' = "run_ended"
    /\ UNCHANGED <<state_json, requests, history, images_in, points3d_in, ply, args,
                   files_out, images_out, points3d_out, kept_ids, result>>

RequestsOf(op) == SelectSeq(requests, LAMBDA q : q.op = op)

\* PipelineRunner.cancel, called once from another thread
Cancel ==
    /\ RequestsOf("cancel") = <<>>
    /\ runner' = [runner EXCEPT !.cancel_event = TRUE]
    /\ requests' = Append(requests,
          [op |-> "cancel", at |-> Len(runner.log), pc |-> pc,
           active |-> runner.snapshot.current_step])
    /\ UNCHANGED <<pc, state_json, history, images_in, points3d_in, ply, args,
                   files_out, images_out, points3d_out, kept_ids, result>>

\* approve_review, lines 154 and 204-207: a Project of the request's own
\* reads state.json, sets the review entry and saves
ApproveReview ==
    /\ pc # "run_ended"
    /\ state_json.exists
    /\ Len(RequestsOf("approve")) < MaxApprovals
    /\ state_json' = record_step(NotLoaded, state_json, "review", "completed").disk
    /\ requests' = Append(requests,
          [op |-> "approve", at |-> Len(runner.log), pc |-> pc,
           active |-> runner.snapshot.current_step])
    /\ UNCHANGED <<pc, runner, history, images_in, points3d_in, ply, args,
                   files_out, images_out, points3d_out, kept_ids, result>>

\* the steps of the runner's thread
RunnerThread ==
    \/ RunProjectMissing
    \/ RunEnter
    \/ BeginStep
    \/ CancelObserved
    \/ TrainLodStart
    \/ TrainLodEnd
    \/ StepReturns
    \/ StepRaises
    \/ ReviewEnter
    \/ ReviewRecordWaiting
    \/ ReviewPoll
    \/ AfterStep
    \/ Complete

NextRunner == RunnerThread \/ Cancel \/ ApproveReview

SpecRunner == InitRunner /\ [][NextRunner]_vars

\* the thread is scheduled as long as it can take a step; nothing obliges
\* anyone to cancel or to approve
SpecRunnerFair == SpecRunner /\ WF_vars(RunnerThread)

----------------------------------------------------------------------------
(* Properties of the pipeline runner *)

\* the events of the runner's thread noted after the request was made
EventsAfter(q) == SubSeq(runner.log, q.at + 1, Len(runner.log))

\* the positions of the thread at which a step is active
StepUnderWay == {"in_step", "review_enter", "review_record", "review_wait"}

\* C22: runner cancellation -- a run on which cancel() was called while it
\* was executing a step ends with status cancelled, starts no step after the
\* call, and leaves the step active at the call recorded as cancelled
CancelEndsRunCancelled ==
    \A k \in DOMAIN requests :
        (requests[k].op = "cancel" /\ requests[k].pc \in StepUnderWay
            /\ pc = "run_ended") =>
            /\ runner.snapshot.status = "cancelled"
            /\ \A j \in DOMAIN EventsAfter(requests[k]) :
                  EventsAfter(requests[k])[j].ev # "begin"
            /\ requests[k].active # "" =>
                  state_json.steps[requests[k].active] = "cancelled"

ReviewPassed ==
    \E j \in DOMAIN runner.log :
        runner.log[j].ev = "return" /\ runner.log[j].step = "review"

\* an approval was recorded while the runner was in the review step
ApprovedAtGate ==
    \E k \in DOMAIN requests :
        requests[k].op = "approve"
            /\ requests[k].pc \in {"review_enter", "review_record", "review_wait"}

\* C23: review gate -- while the runner is in the review step the status is
\* running and no later step has begun; the step is passed only with the
\* review recorded as completed in state.json; a review that is completed
\* when the step starts is passed at once; and an approval recorded while
\* the runner is in the review step leads to the step being passed, unless
\* the run is ended
ReviewGate ==
    /\ [](pc \in {"review_enter", "review_record", "review_wait"} =>
            /\ runner.snapshot.status = "running"
            /\ runner.log[Len(runner.log)].ev \in {"begin", "record"}
            /\ runner.log[Len(runner.log)].step = "review")
    /\ [][/\ (pc \in {"review_enter", "review_wait"} /\ pc' = "after_step") =>
                state_json.steps.review = "completed"
          /\ (pc = "review_enter" /\ state_json.steps.review = "completed") =>
                pc' \in {"review_enter", "after_step"}]_vars
    /\ (ApprovedAtGate ~> (ReviewPassed \/ pc = "run_ended"))

\* the events of one kind that the runner's thread noted, in order
EventsOf(ev) == SelectSeq(runner.log, LAMBDA e : e.ev = ev)

\* C24: runner terminal status -- the status is running until the thread
\* ends and changes once, to completed, failed or cancelled; completed comes
\* with progress 1.0 and with every requested step having returned normally,
\* in the requested order; a step that raises gives failed with the
\* exception text as error, that step recorded as failed in state.json and
\* no step begun afterwards
TerminalStatus ==
    /\ pc # "run_ended" =>
          runner.snapshot.status = "running" /\ EventsOf("status") = <<>>
    /\ pc = "run_ended" =>
          /\ Len(EventsOf("status")) = 1
          /\ runner.log[Len(runner.log)].ev = "status"
          /\ runner.snapshot.status = EventsOf("status")[1].status
          /\ runner.snapshot.status \in {"completed", "failed", "cancelled"}
    /\ runner.snapshot.status = "completed" =>
          /\ runner.snapshot.progress = Ratio(1, 1)
          /\ EventsOf("raise") = <<>>
          /\ [i \in 1..Len(EventsOf("return")) |-> EventsOf("return")[i].step]
                = args.steps
    /\ EventsOf("raise") # <<>> =>
          /\ runner.snapshot.status = "failed"
          /\ runner.snapshot.error = EventsOf("raise")[1].status
          /\ state_json.steps[EventsOf("raise")[1].step] = "failed"
          /\ runner.log[Len(runner.log) - 2].ev = "raise"

\* a run of three steps, the review among them, that completed
RunCompletedWitness ==
    /\ pc = "run_ended"
    /\ runner.snapshot.status = "completed"
    /\ args.steps = <<"clean", "train", "review">>

\* a run whose second step raised
RunFailedWitness ==
    /\ pc = "run_ended"
    /\ runner.snapshot.status = "failed"
    /\ Len(EventsOf("return")) = 1
    /\ Len(EventsOf("raise")) = 1

----------------------------------------------------------------------------
(* colmap/parsers.py: count_images, and the readers of the image table      *)

\* comment lines and blank lines are skipped; a line of at least ten fields
\* counts and the line after it is skipped
RECURSIVE CountImagesFrom(_, _)
CountImagesFrom(f, i) ==
    IF i > Len(f) THEN 0
    ELSE IF f[i].c \/ f[i].t = <<>> THEN CountImagesFrom(f, i + 1)
    ELSE IF Len(f[i].t) >= 10 THEN 1 + CountImagesFrom(f, i + 2)
    ELSE CountImagesFrom(f, i + 1)

count_images(f) == CountImagesFrom(f, 1)

\* C25: every reader of the image table skips comment lines and blank lines
\* and pairs pose and observation lines alike -- analyze_cameras,
\* remove_outlier_cameras and parse_images_txt read as many images as
\* count_images counts, and so does clean_points2d_refs in its camera count
ReadersPairAlike ==
    pc = "repaired" =>
        /\ Len(ScanCameras(images_in, 1)) = count_images(images_in)
        /\ remove_outlier_cameras(images_in, {}).kept = count_images(images_in)
        /\ Len(parse_images_txt(images_in)) = count_images(images_in)
        /\ result.cameras = count_images(images_in)

----------------------------------------------------------------------------
(* Properties of the automatic threshold *)

\* C26: in auto-threshold mode the number of cameras classified outlier is
\* at most N - 1 - int(N * 0.99); with at most 100 cameras the percentile
\* index selects the largest distance, no camera is classified outlier and
\* none is removed
AutoModeOutlierBound ==
    (pc = "removed" /\ args.op = "remove_outlier_cameras_auto"
        /\ args.threshold = NoThreshold) =>
        LET analysis == result.analysis
            n == analysis.total
            k == PercentileIndex(n, PercentileNum, PercentileDen)
            classified == {j \in 1..n :
                IsOutlier(Dist2(analysis.cameras[j], analysis.median),
                          result.threshold_used)} IN
        /\ result.threshold_used = analysis.threshold
        /\ Cardinality(classified) <= n - 1 - k
        /\ Cardinality(analysis.outliers) <= n - 1 - k
        /\ n <= 100 =>
              /\ k = n - 1
              /\ \A j \in 1..n :
                    4 * Dist2(analysis.cameras[j], analysis.median)
                        <= analysis.threshold
              /\ classified = {}
              /\ result.outlier_names = {}
              /\ result.removed = 0
              /\ result.kept = n

\* 101 cameras, one of them classified outlier: the bound is attained
CrowdOutlierWitness ==
    /\ pc = "removed"
    /\ args = DefaultAuto
    /\ result.analysis.total = 101
    /\ Cardinality(result.analysis.outliers) = 1
    /\ result.removed = 1

\* three cameras, one of them 297 away from the centre, none classified
SmallSetWitness ==
    /\ pc = "removed"
    /\ args = DefaultAuto
    /\ result.analysis.total = 3
    /\ \E j \in 1..3 : Dist2(result.analysis.cameras[j], result.analysis.median)
                          = 4 * 297 * 297
    /\ result.removed = 0

----------------------------------------------------------------------------
(* steps/colmap_clean.py: ColmapCleanStep.run on image tables in which      *)
(* images may share a file name                                             *)

MaxSharedImages == 3   \* images of a reconstruction with shared names

SharedImageShapes == {[pos |-> p, name |-> n] : p \in RunPositions, n \in Names}

\* image i is named shapes[i].name and has no observation
NamedImages(shapes) ==
    Flatten([i \in 1..Len(shapes) |->
        <<PoseLine(i, shapes[i].pos, shapes[i].name), ObsLine(<<>>, 0)>>])

\* a text source without points and without a PLY
InitShared ==
    /\ pc = "detect"
    /\ \E shapes \in SeqUpTo(SharedImageShapes, MaxSharedImages) :
          images_in = NamedImages(shapes)
    /\ args \in {RunCall(TxtFiles, config) : config \in RunConfigs}
    /\ points3d_in = <<>>
    /\ ply = NoPly
    /\ kept_ids = {}
    /\ files_out = {}
    /\ images_out = <<>>
    /\ points3d_out = <<>>
    /\ result = NoResult
    /\ history = <<>>
    /\ runner = NoRunner
    /\ state_json = NoFile
    /\ requests = <<>>

NextShared ==
    \/ DetectFormat
    \/ CopyCameras
    \/ RemoveOutliers
    \/ RemoveOutliersRaises
    \/ CopyPoints
    \/ RepairReferences

SpecShared == InitShared /\ [][NextShared]_vars

\* C27: clean-step summary consistency -- cameras_total = cameras_kept +
\* cameras_removed, cameras_removed is the number of image records absent
\* from the output image table, and an image is absent from the output
\* exactly if its own distance to the centre exceeds the threshold
SummaryConsistency ==
    pc = "done" =>
        LET before == parse_images_txt(images_in)
            after == parse_images_txt(images_out)
            analysis == result.camera_analysis
            far(img) == IsOutlier(Dist2(img, analysis.median_position),
                                  analysis.threshold_used) IN
        /\ result.summary.cameras_total
              = result.summary.cameras_kept + result.summary.cameras_removed
        /\ result.summary.cameras_removed = Len(before) - Len(after)
        /\ ImageIdsOf(images_out)
              = {before[j].image_id : j \in {i \in 1..Len(before) : ~far(before[i])}}

----------------------------------------------------------------------------
(* Properties of state.json under the runner and the web requests *)

\* C28: no lost update on state.json -- an approval recorded through a
\* Project of its own while the runner executes another step stays in
\* state.json: the review entry is completed for as long as the runner has
\* not recorded the review step itself
NoLostUpdate ==
    \A k \in DOMAIN requests :
        (requests[k].op = "approve" /\ requests[k].pc = "in_step") =>
            \/ state_json.steps.review = "completed"
            \/ \E j \in DOMAIN EventsAfter(requests[k]) :
                  /\ EventsAfter(requests[k])[j].ev = "record"
                  /\ EventsAfter(requests[k])[j].step = "review"

----------------------------------------------------------------------------
(* cli/clean_cmd.py, cli/train_cmd.py, steps/base.py: the commands          *)
(* `splatpipe clean` and `splatpipe train` on a project with a state.json   *)

\* the command line: the clean call on the project's COLMAP folder, or the
\* train command with the TrainResult.success of its LOD levels
CliCall(command, files, config, train_results) ==
    [op |-> "clean", files |-> files, clean_config |-> config,
     command |-> command, train_results |-> train_results]

\* state.json before the command: the step was never run, or it was
\* completed by an earlier run
CliStates ==
    {[exists |-> TRUE, steps |-> [AllPending EXCEPT ![step] = status]] :
        step \in {"clean", "train"}, status \in {NoEntry, "completed"}}

InitCli ==
    /\ pc = "cli"
    /\ \/ /\ \E shapes \in SeqUpTo(SharedImageShapes, MaxSharedImages) :
                images_in = NamedImages(shapes)
          /\ args \in {CliCall("clean", TxtFiles, config, <<>>) : config \in RunConfigs}
       \/ /\ images_in = <<>>
          /\ args \in {CliCall("clean", MixedFiles, DefaultConfig, <<>>)}
                      \cup {CliCall("train", TxtFiles, DefaultConfig, tr) :
                                tr \in TrainResults}
    /\ state_json \in CliStates
    /\ points3d_in = <<>>
    /\ ply = NoPly
    /\ kept_ids = {}
    /\ files_out = {}
    /\ images_out = <<>>
    /\ points3d_out = <<>>
    /\ result = NoResult
    /\ history = <<>>
    /\ runner = NoRunner
    /\ requests = <<>>

\* clean_cmd.py lines 25-47: the format is known, the previous status is
\* read and reported, step.execute() calls run()
CliClean ==
    /\ pc = "cli"
    /\ args.command = "clean"
    /\ detect_colmap_format(args.files) # "unknown"
    /\ history' = Append(history, [prev_status |->
                                     get_step_status(NotLoaded, state_json, "clean")])
    /\ pc' = "detect"
    /\ UNCHANGED <<runner, state_json, requests, images_in, points3d_in, ply, args,
                   files_out, images_out, points3d_out, kept_ids, result>>

\* clean_cmd.py lines 30-34: typer.Exit(1) before the step is built
CliCleanExits ==
    /\ pc = "cli"
    /\ args.command = "clean"
    /\ detect_colmap_format(args.files) = "unknown"
    /\ pc' = "exited"
    /\ UNCHANGED <<runner, state_json, requests, history, images_in, points3d_in, ply,
                   args, files_out, images_out, points3d_out, kept_ids, result>>

\* base.py lines 48-64: run() has returned; the debug JSON is written and
\* the step is recorded as completed
ExecuteRecords ==
    /\ pc = "done"
    /\ state_json' = record_step(NotLoaded, state_json, "clean", "completed").disk
    /\ files_out' = files_out \cup {"clean_debug.json"}
    /\ pc' = "recorded"
    /\ UNCHANGED <<runner, requests, history, images_in, points3d_in, ply, args,
                   images_out, points3d_out, kept_ids, result>>

\* train_cmd.py lines 159-163
train_status(all_results) ==
    IF \A i \in DOMAIN all_results : all_results[i] THEN "completed" ELSE "failed"

\* train_cmd.py lines 80-164: every LOD is trained, its result appended;
\* the step is recorded with the status of all results
CliTrain ==
    /\ pc = "cli"
    /\ args.command = "train"
    /\ state_json' = record_step(NotLoaded, state_json, "train",
                                 train_status(args.train_results)).disk
    /\ result' = [op |-> "train", lod_count |-> Len(args.train_results),
                  all_completed |-> train_status(args.train_results) = "completed"]
    /\ files_out' = files_out \cup {"train_debug.json"}
    /\ pc' = "recorded"
    /\ UNCHANGED <<runner, requests, history, images_in, points3d_in, ply, args,
                   images_out, points3d_out, kept_ids>>

NextCli ==
    \/ CliClean
    \/ CliCleanExits
    \/ DetectFormat
    \/ CopyCameras
    \/ RemoveOutliers
    \/ RemoveOutliersRaises
    \/ CopyPoints
    \/ RepairReferences
    \/ ExecuteRecords
    \/ CliTrain

SpecCli == InitCli /\ [][NextCli]_vars

\* C29: completed means the last execution returned -- once
\* PipelineStep.execute() has raised in `splatpipe clean`, the recorded
\* status of the clean step is not completed, also when the step had been
\* completed by an earlier run
CompletedMeansReturned ==
    (pc = "failed" /\ args.command = "clean") =>
        get_step_status(NotLoaded, state_json, "clean") # "completed"

\* C30: train status by success, alike in both front ends -- when the
\* runner's train step has consumed the trainer's results and returned, the
\* status it recorded is completed only if every TrainResult reports
\* success, and it is the status `splatpipe train` records for the same
\* results
TrainStatusAgrees ==
    \A j \in 2..Len(runner.log) :
        (runner.log[j].ev = "return" /\ runner.log[j].step = "train") =>
            LET recorded == runner.log[j - 1] IN
            /\ recorded.ev = "record" /\ recorded.step = "train"
            /\ recorded.status = "completed" =>
                  \A i \in DOMAIN args.train_results : args.train_results[i]
            /\ recorded.status = train_status(args.train_results)

====
